---- MODULE Spec2Model ----
(***************************************************************************)
(* Broadcast chat server: the bounded LRU MessageCache (cache.cpp), the   *)
(* ThreadPool (thread_pool.cpp), the RoundRobinScheduler (scheduler.cpp)  *)
(* and the connection handlers, the registry and broadcast_message of     *)
(* server.cpp, modelled as state machines.                                *)
(***************************************************************************)
EXTENDS Integers, Sequences, FiniteSets, TLC

(***************************************************************************)
(* Bounds of the model.                                                    *)
(***************************************************************************)
MaxTime == 1         \* time(nullptr) returns a value in 0..MaxTime
MaxLookups == 2      \* lookups between two clear() calls
MaxAccess == 2       \* cap on a slot's access_count
NumWorkers == 2      \* pool_size of the ThreadPool
MaxTasks == 2        \* enqueue calls made on the pool
MaxCount == 7        \* hits and misses drawn for get_hit_rate are 0..MaxCount
MaxInputs == 4       \* connections, frames, disconnections, seconds
MaxCalls == 5        \* get_next_client calls between two changes of the ring
SignalBy == 2        \* inputs the server gets before the signal that stops it

Capacities == {1, 2}                            \* capacities constructed
Messages == {<<"a", 1>>, <<"a", 2>>, <<"a_1", 1>>}  \* (sender, timestamp) inserted
Contents == {"x", "y"}                          \* message contents
Times == 0..MaxTime

VARIABLES
    capacity,    \* MessageCache::capacity
    cache,       \* MessageCache::cache, the slot vector
    size,        \* MessageCache::size
    index_map,   \* MessageCache::index_map, fingerprint -> slot
    hits,        \* MessageCache::hits
    misses,      \* MessageCache::misses
    now,         \* the last value time(nullptr) returned
    call,        \* the last call made on the cache, with its result
    lookups,     \* number of lookup calls since construction or clear()
    stop,        \* ThreadPool::stop
    tasks,       \* ThreadPool::tasks, the queue of task identities
    active_count, \* ThreadPool::active_count
    wpc,         \* where each worker is in worker_thread
    wtask,       \* the local 'task' of each worker (NullTask when empty)
    notified,    \* workers blocked in condition.wait that a notify has picked
    cpc,         \* where the thread calling enqueue is
    issued,      \* number of enqueue calls made so far
    enq,         \* the last enqueue call, with its outcome
    dpc,         \* where the thread running ~ThreadPool is
    joining,     \* the worker the destructor's join loop is at
    runs,        \* how many times each task has been executed
    accepted,    \* tasks that enqueue pushed on the queue
    rejected,    \* tasks that enqueue refused
    queuedAtStop, \* queue length when the destructor set stop (-1 before)
    ring,        \* RoundRobinScheduler: the nodes from head along next
    current,     \* RoundRobinScheduler::current, by the node's socket_fd
    client_count, \* RoundRobinScheduler::client_count
    selected,    \* what get_next_client returned since the last add or remove
    sched_call,  \* the last call made on the scheduler
    clients,     \* the registry: socket descriptor -> ClientInfo
    clients_mutex, \* the handler that holds clients_mutex, or Nobody
    metrics_mutex, \* the handler that holds metrics_mutex, or Nobody
    metrics,     \* the global PerformanceMetrics
    hpc,         \* where the handler of each descriptor is in handle_client
    user_id,     \* the local user_id of each handler
    msg,         \* the message each handler is processing or broadcasting
    cursor,      \* the entry the loop of broadcast_message sent to last
    failed_sockets, \* the local failed_sockets of each broadcast_message
    attempted,   \* the sends the running broadcast_message has made
    inbox,       \* what has been sent on each descriptor since its accept
    conn,        \* which accepted connection each descriptor belongs to
    peer_gone,   \* whether the peer of each descriptor has closed or reset it
    mpc,         \* where the accept loop of main is
    accepts,     \* number of connections accepted so far
    inputs,      \* number of inputs the server has been given so far
    texts,       \* number of text messages broadcast_message has finished
    server_running, \* the flag server_running that the signal handler clears
    readers      \* the threads of test_concurrent_access that call lookup

cacheVars == <<capacity, cache, size, index_map, hits, misses, now, call, lookups>>

poolVars == <<stop, tasks, active_count, wpc, wtask, notified, cpc, issued, enq,
              dpc, joining, runs, accepted, rejected, queuedAtStop>>

schedVars == <<ring, current, client_count, selected, sched_call>>

serverVars == <<clients, clients_mutex, metrics_mutex, metrics, hpc, user_id,
                msg, cursor, failed_sockets, attempted, inbox, conn,
                peer_gone, mpc, accepts, inputs, texts>>

\* What only the shutdown and the concurrent lookups change.
processVars == <<server_running, readers>>

vars == <<capacity, cache, size, index_map, hits, misses, now, call, lookups,
          stop, tasks, active_count, wpc, wtask, notified, cpc, issued, enq,
          dpc, joining, runs, accepted, rejected, queuedAtStop,
          ring, current, client_count, selected, sched_call,
          clients, clients_mutex, metrics_mutex, metrics, hpc, user_id,
          msg, cursor, failed_sockets, attempted, inbox, conn,
          peer_gone, mpc, accepts, inputs, texts, server_running, readers>>

(***************************************************************************)
(* MessageCache                                                            *)
(***************************************************************************)

\* CacheEntry(): the default-constructed slot.
CacheEntry ==
    [message_id |-> "", content |-> "", sender |-> "", timestamp |-> 0,
     last_access |-> 0, access_count |-> 0, valid |-> FALSE]

\* ss << sender << "_" << timestamp
generate_message_id(sender, timestamp) ==
    sender \o "_" \o ToString(timestamp)

\* The fingerprints a caller may ask for: every one insert can produce and
\* one that is never inserted.
MessageIds ==
    {generate_message_id(pair[1], pair[2]) : pair \in Messages}
        \cup {"nonexistent_message"}

\* Mutant of erase: the entry stays in the map.
erase_nothing(m, key) == m

\* index_map.erase(key)
erase(m, key) == [k \in (DOMAIN m) \ {key} |-> m[k]]

\* index_map[key] = value
assign(m, key, value) ==
    [k \in (DOMAIN m) \cup {key} |-> IF k = key THEN value ELSE m[k]]

\* Mutant of lru_scan: on equal last_access the later slot wins.
RECURSIVE lru_scan_le(_, _, _, _, _)
lru_scan_le(c, sz, i, lru_index, oldest_access) ==
    IF i >= sz THEN lru_index
    ELSE IF c[i].valid /\ c[i].last_access <= oldest_access
         THEN lru_scan_le(c, sz, i + 1, i, c[i].last_access)
         ELSE lru_scan_le(c, sz, i + 1, lru_index, oldest_access)

\* The loop of find_lru_index: for (i = 1; i < size; ++i).
RECURSIVE lru_scan(_, _, _, _, _)
lru_scan(c, sz, i, lru_index, oldest_access) ==
    IF i >= sz THEN lru_index
    ELSE IF c[i].valid /\ c[i].last_access < oldest_access
         THEN lru_scan(c, sz, i + 1, i, c[i].last_access)
         ELSE lru_scan(c, sz, i + 1, lru_index, oldest_access)

find_lru_index(c, sz) ==
    IF sz = 0 THEN 0 ELSE lru_scan(c, sz, 1, 0, c[0].last_access)

\* The slot written by insert.
new_entry(msg_id, sender, content, timestamp, t) ==
    [message_id |-> msg_id, content |-> content, sender |-> sender,
     timestamp |-> timestamp, last_access |-> t, access_count |-> 1,
     valid |-> TRUE]

\* Mutant of insert: a duplicate refreshes the entry it finds.
insert_touching(sender, content, timestamp, t) ==
    LET msg_id == generate_message_id(sender, timestamp) IN
    IF msg_id \in DOMAIN index_map
    THEN /\ call' = [op |-> "insert", id |-> msg_id, sender |-> sender,
                     timestamp |-> timestamp, content |-> content,
                     ret |-> FALSE, evicted |-> ""]
         /\ cache' = [cache EXCEPT ![index_map[msg_id]].last_access = t,
                                    ![index_map[msg_id]].access_count = 1]
         /\ now' = t
         /\ UNCHANGED <<capacity, size, index_map, hits, misses, lookups>>
    ELSE LET full == ~(size < capacity)
             insert_index == IF full THEN find_lru_index(cache, size) ELSE size
             old_id == IF full /\ cache[insert_index].valid
                       THEN cache[insert_index].message_id ELSE ""
             kept == IF full /\ cache[insert_index].valid
                     THEN erase(index_map, cache[insert_index].message_id)
                     ELSE index_map
         IN /\ size' = IF full THEN size ELSE size + 1
            /\ cache' = [cache EXCEPT ![insert_index] =
                            new_entry(msg_id, sender, content, timestamp, t)]
            /\ index_map' = assign(kept, msg_id, insert_index)
            /\ now' = t
            /\ call' = [op |-> "insert", id |-> msg_id, sender |-> sender,
                        timestamp |-> timestamp, content |-> content,
                        ret |-> TRUE, evicted |-> old_id]
            /\ UNCHANGED <<capacity, hits, misses, lookups>>

\* Mutant of insert: the eviction branch also counts the entry (size++).
insert_counting(sender, content, timestamp, t) ==
    LET msg_id == generate_message_id(sender, timestamp) IN
    IF msg_id \in DOMAIN index_map
    THEN /\ call' = [op |-> "insert", id |-> msg_id, sender |-> sender,
                     timestamp |-> timestamp, content |-> content,
                     ret |-> FALSE, evicted |-> ""]
         /\ UNCHANGED <<capacity, cache, size, index_map, hits, misses, now,
                        lookups>>
    ELSE LET full == ~(size < capacity)
             insert_index == IF full THEN find_lru_index(cache, size) ELSE size
             old_id == IF full /\ cache[insert_index].valid
                       THEN cache[insert_index].message_id ELSE ""
             kept == IF full /\ cache[insert_index].valid
                     THEN erase(index_map, cache[insert_index].message_id)
                     ELSE index_map
         IN /\ size' = size + 1
            /\ cache' = [i \in (DOMAIN cache) \cup {insert_index} |->
                            IF i = insert_index
                            THEN new_entry(msg_id, sender, content, timestamp, t)
                            ELSE cache[i]]
            /\ index_map' = assign(kept, msg_id, insert_index)
            /\ now' = t
            /\ call' = [op |-> "insert", id |-> msg_id, sender |-> sender,
                        timestamp |-> timestamp, content |-> content,
                        ret |-> TRUE, evicted |-> old_id]
            /\ UNCHANGED <<capacity, hits, misses, lookups>>

\* bool MessageCache::insert(sender, content, timestamp); t is the value
\* time(nullptr) returns inside the call.
insert(sender, content, timestamp, t) ==
    LET msg_id == generate_message_id(sender, timestamp) IN
    IF msg_id \in DOMAIN index_map
    THEN /\ call' = [op |-> "insert", id |-> msg_id, sender |-> sender,
                     timestamp |-> timestamp, content |-> content,
                     ret |-> FALSE, evicted |-> ""]
         /\ UNCHANGED <<capacity, cache, size, index_map, hits, misses, now,
                        lookups>>
    ELSE LET full == ~(size < capacity)
             insert_index == IF full THEN find_lru_index(cache, size) ELSE size
             old_id == IF full /\ cache[insert_index].valid
                       THEN cache[insert_index].message_id ELSE ""
             kept == IF full /\ cache[insert_index].valid
                     THEN erase(index_map, cache[insert_index].message_id)
                     ELSE index_map
         IN /\ size' = IF full THEN size ELSE size + 1
            /\ cache' = [cache EXCEPT ![insert_index] =
                            new_entry(msg_id, sender, content, timestamp, t)]
            /\ index_map' = assign(kept, msg_id, insert_index)
            /\ now' = t
            /\ call' = [op |-> "insert", id |-> msg_id, sender |-> sender,
                        timestamp |-> timestamp, content |-> content,
                        ret |-> TRUE, evicted |-> old_id]
            /\ UNCHANGED <<capacity, hits, misses, lookups>>

\* The test both lookup and update_access make on a fingerprint:
\* it != end() && index >= 0 && index < size && cache[index].valid
found_in(m, c, sz, message_id) ==
    /\ message_id \in DOMAIN m
    /\ m[message_id] >= 0
    /\ m[message_id] < sz
    /\ c[m[message_id]].valid

found(message_id) == found_in(index_map, cache, size, message_id)

\* Mutant of lookup: a hit also refreshes the entry (last_access, access_count).
lookup_refreshing(message_id) ==
    /\ IF found(message_id)
       THEN /\ hits' = hits + 1
            /\ misses' = misses
            /\ cache' = [cache EXCEPT
                            ![index_map[message_id]].last_access = now,
                            ![index_map[message_id]].access_count = @ + 1]
            /\ call' = [op |-> "lookup", id |-> message_id, ret |-> TRUE,
                        content |-> cache[index_map[message_id]].content]
       ELSE /\ misses' = misses + 1
            /\ hits' = hits
            /\ cache' = cache
            /\ call' = [op |-> "lookup", id |-> message_id, ret |-> FALSE,
                        content |-> ""]
    /\ lookups' = lookups + 1
    /\ UNCHANGED <<capacity, size, index_map, now>>

\* Mutant of lookup: a miss is not counted.
lookup_uncounted(message_id) ==
    /\ IF found(message_id)
       THEN /\ hits' = hits + 1
            /\ misses' = misses
            /\ call' = [op |-> "lookup", id |-> message_id, ret |-> TRUE,
                        content |-> cache[index_map[message_id]].content]
       ELSE /\ misses' = misses
            /\ hits' = hits
            /\ call' = [op |-> "lookup", id |-> message_id, ret |-> FALSE,
                        content |-> ""]
    /\ lookups' = lookups + 1
    /\ UNCHANGED <<capacity, cache, size, index_map, now>>

\* bool MessageCache::lookup(message_id, content) const.  The out parameter
\* is written on a hit only; the caller passes an empty string.
lookup(message_id) ==
    /\ IF found(message_id)
       THEN /\ hits' = hits + 1
            /\ misses' = misses
            /\ call' = [op |-> "lookup", id |-> message_id, ret |-> TRUE,
                        content |-> cache[index_map[message_id]].content]
       ELSE /\ misses' = misses + 1
            /\ hits' = hits
            /\ call' = [op |-> "lookup", id |-> message_id, ret |-> FALSE,
                        content |-> ""]
    /\ lookups' = lookups + 1
    /\ UNCHANGED <<capacity, cache, size, index_map, now>>

\* The reader threads of test_concurrent_access.
Readers == {1, 2}

\* No thread is in lookup and none has had a call return.
ReadersInit ==
    readers = [r \in Readers |->
                  [pc |-> "idle", id |-> "", hit |-> FALSE, loaded |-> 0,
                   returned_true |-> 0]]

\* lookup by the thread r, up to the counter: the shared lock is taken,
\* which no writer holds between two steps of the model, and the entry is
\* looked for; the counter to be incremented is hits on a hit and misses
\* otherwise.
lookup_find(r, message_id) ==
    /\ readers[r].pc = "idle"
    /\ readers' = [readers EXCEPT ![r].pc = "load",
                                  ![r].id = message_id,
                                  ![r].hit = found(message_id)]
    /\ lookups' = lookups + 1
    /\ UNCHANGED <<capacity, cache, size, index_map, hits, misses, now, call>>
    /\ UNCHANGED <<poolVars, schedVars, serverVars, server_running>>

\* hits++ or misses++ on a plain uint64_t, under the shared lock that other
\* readers hold too: the read of the counter.
lookup_load(r) ==
    /\ readers[r].pc = "load"
    /\ readers' = [readers EXCEPT
                      ![r].pc = "store",
                      ![r].loaded = IF readers[r].hit THEN hits ELSE misses]
    /\ UNCHANGED <<cacheVars, poolVars, schedVars, serverVars, server_running>>

\* hits++ or misses++: the write of the value read plus one; lookup then
\* releases the shared lock and returns.
lookup_store(r) ==
    /\ readers[r].pc = "store"
    /\ IF readers[r].hit
       THEN /\ hits' = readers[r].loaded + 1
            /\ misses' = misses
            /\ call' = [op |-> "lookup", id |-> readers[r].id, ret |-> TRUE,
                        content |-> cache[index_map[readers[r].id]].content]
       ELSE /\ misses' = readers[r].loaded + 1
            /\ hits' = hits
            /\ call' = [op |-> "lookup", id |-> readers[r].id, ret |-> FALSE,
                        content |-> ""]
    /\ readers' = [readers EXCEPT
                      ![r].pc = "idle",
                      ![r].returned_true = @ + (IF readers[r].hit THEN 1 ELSE 0)]
    /\ UNCHANGED <<capacity, cache, size, index_map, now, lookups>>
    /\ UNCHANGED <<poolVars, schedVars, serverVars, server_running>>

\* void MessageCache::update_access(message_id); t is the value
\* time(nullptr) returns inside the call.  call.ret records whether the
\* entry was refreshed.
update_access(message_id, t) ==
    IF found(message_id)
    THEN /\ cache' = [cache EXCEPT
                         ![index_map[message_id]].last_access = t,
                         ![index_map[message_id]].access_count = @ + 1]
         /\ now' = t
         /\ call' = [op |-> "update_access", id |-> message_id, ret |-> TRUE]
         /\ UNCHANGED <<capacity, size, index_map, hits, misses, lookups>>
    ELSE /\ call' = [op |-> "update_access", id |-> message_id, ret |-> FALSE]
         /\ UNCHANGED <<capacity, cache, size, index_map, hits, misses, now,
                        lookups>>

\* Mutant of clear: the fingerprint index is not emptied.
clear_keeping_index ==
    /\ cache' = [i \in DOMAIN cache |->
                    IF i < size
                    THEN [cache[i] EXCEPT !.valid = FALSE, !.message_id = "",
                                          !.content = "", !.sender = ""]
                    ELSE cache[i]]
    /\ index_map' = index_map
    /\ size' = 0
    /\ hits' = 0
    /\ misses' = 0
    /\ lookups' = 0
    /\ call' = [op |-> "clear"]
    /\ UNCHANGED <<capacity, now>>

\* void MessageCache::clear()
clear ==
    /\ cache' = [i \in DOMAIN cache |->
                    IF i < size
                    THEN [cache[i] EXCEPT !.valid = FALSE, !.message_id = "",
                                          !.content = "", !.sender = ""]
                    ELSE cache[i]]
    /\ index_map' = << >>
    /\ size' = 0
    /\ hits' = 0
    /\ misses' = 0
    /\ lookups' = 0
    /\ call' = [op |-> "clear"]
    /\ UNCHANGED <<capacity, now>>

(***************************************************************************)
(* IEEE-754 double arithmetic, as far as get_hit_rate uses it.  A natural  *)
(* number is a sequence of bits, least significant first; a double is      *)
(* [m |-> bits, e |-> exponent], of value m * 2^e, with at most            *)
(* SignificandBits significant bits in m.                                  *)
(***************************************************************************)
SignificandBits == 53

RECURSIVE nat_bits(_)
nat_bits(n) == IF n = 0 THEN << >> ELSE <<n % 2>> \o nat_bits(n \div 2)

\* Drop the high zero bits.
RECURSIVE trim(_)
trim(b) ==
    IF b = << >> THEN b
    ELSE IF b[Len(b)] = 0 THEN trim(SubSeq(b, 1, Len(b) - 1)) ELSE b

\* b * 2^n
shift(b, n) == IF trim(b) = << >> THEN << >> ELSE [k \in 1..n |-> 0] \o trim(b)

\* b * k + carry, from bit i upwards, for a small k.
RECURSIVE mul_from(_, _, _, _)
mul_from(b, i, k, carry) ==
    IF i > Len(b) THEN nat_bits(carry)
    ELSE <<(b[i] * k + carry) % 2>>
            \o mul_from(b, i + 1, k, (b[i] * k + carry) \div 2)

mul_small(b, k) == trim(mul_from(b, 1, k, 0))

add_small(b, k) == trim(mul_from(b, 1, 1, k))

\* a <= b for trimmed a and b, comparing from bit i downwards.
RECURSIVE leq_from(_, _, _)
leq_from(a, b, i) ==
    IF i = 0 THEN TRUE
    ELSE IF a[i] # b[i] THEN a[i] < b[i]
    ELSE leq_from(a, b, i - 1)

leq(a, b) ==
    IF Len(a) # Len(b) THEN Len(a) < Len(b) ELSE leq_from(a, b, Len(a))

\* a - b for a >= b, from bit i upwards.
RECURSIVE sub_from(_, _, _, _)
sub_from(a, b, i, borrow) ==
    IF i > Len(a) THEN << >>
    ELSE LET bi == IF i <= Len(b) THEN b[i] ELSE 0
             v == a[i] - bi - borrow
         IN <<(v + 2) % 2>> \o sub_from(a, b, i + 1, IF v < 0 THEN 1 ELSE 0)

\* |a - b|
distance(a, b) ==
    IF leq(b, a) THEN trim(sub_from(a, b, 1, 0)) ELSE trim(sub_from(b, a, 1, 0))

\* Round the exact value b * 2^e (plus a non-zero tail below bit 1 when
\* sticky) to SignificandBits bits, to nearest, ties to even.
round_double(b, sticky, e) ==
    IF Len(b) <= SignificandBits THEN [m |-> b, e |-> e]
    ELSE LET d == Len(b) - SignificandBits
             kept == SubSeq(b, d + 1, Len(b))
             guard == b[d]
             tail == sticky \/ \E i \in 1..(d - 1) : b[i] = 1
             up == guard = 1 /\ (tail \/ kept[1] = 1)
         IN [m |-> IF up THEN add_small(kept, 1) ELSE kept, e |-> e + d]

\* The bits of r / t (0 < r < t) after the binary point, most significant
\* first, until n significant bits are out or the division is exact.
\* 'lead' counts the zeros before the first 1.
RECURSIVE divide_bits(_, _, _, _, _)
divide_bits(r, t, n, lead, out) ==
    IF r = 0 \/ n = 0 THEN [bits |-> out, lead |-> lead, sticky |-> r # 0]
    ELSE LET bit == IF 2 * r >= t THEN 1 ELSE 0
             rest == 2 * r - bit * t
         IN IF bit = 0 /\ out = << >>
            THEN divide_bits(rest, t, n, lead + 1, out)
            ELSE divide_bits(rest, t, n - 1, lead, <<bit>> \o out)

\* static_cast<double>(h) / t for 0 <= h <= t, t > 0.
divide_double(h, t) ==
    IF h = 0 THEN [m |-> << >>, e |-> 0]
    ELSE IF h = t THEN [m |-> <<1>>, e |-> 0]
    ELSE LET q == divide_bits(h, t, SignificandBits + 1, 0, << >>)
         IN round_double(q.bits, q.sticky, 0 - (q.lead + Len(q.bits)))

\* x * 100.0
times_100(x) == round_double(mul_small(x.m, 100), FALSE, x.e)

\* Mutant of get_hit_rate: the fraction is not scaled to a percentage.
get_hit_rate_fraction(h, m) ==
    IF h + m = 0 THEN [m |-> << >>, e |-> 0] ELSE divide_double(h, h + m)

\* double MessageCache::get_hit_rate() const, for hits = h and misses = m.
get_hit_rate(h, m) ==
    IF h + m = 0 THEN [m |-> << >>, e |-> 0]
    ELSE times_100(divide_double(h, h + m))

\* The call of get_hit_rate on the cache.
hit_rate_call ==
    /\ call' = [op |-> "get_hit_rate", ret |-> get_hit_rate(hits, misses)]
    /\ UNCHANGED <<capacity, cache, size, index_map, hits, misses, now, lookups>>

\* MessageCache::MessageCache(cap) with cap > 0.
construct(cap) ==
    /\ capacity = cap
    /\ cache = [i \in 0..(cap - 1) |-> CacheEntry]
    /\ size = 0
    /\ index_map = << >>
    /\ hits = 0
    /\ misses = 0
    /\ now = 0
    /\ call = [op |-> "construct"]
    /\ lookups = 0

\* A cache of each capacity the model constructs.
CacheInit == \E cap \in Capacities : construct(cap)

\* MessageCache message_cache(CACHE_SIZE), the cache of the server.
CACHE_SIZE == 10

ServerCacheInit == construct(CACHE_SIZE)

(***************************************************************************)
(* ThreadPool                                                              *)
(***************************************************************************)

Workers == 1..NumWorkers
TaskIds == 1..MaxTasks
Connections == 1..(NumWorkers + 1)  \* one connection more than workers
NullTask == 0        \* an empty std::function

\* Workers blocked in condition.wait that no notify has picked yet.
waiters == {w \in Workers : wpc[w] = "waiting" /\ w \notin notified}

\* ThreadPool::ThreadPool(size) with size > 0: every worker thread is
\* started at the top of worker_thread's loop.
PoolInit ==
    /\ stop = FALSE
    /\ tasks = << >>
    /\ active_count = 0
    /\ wpc = [w \in Workers |-> "loop"]
    /\ wtask = [w \in Workers |-> NullTask]
    /\ notified = {}
    /\ cpc = "idle"
    /\ issued = 0
    /\ enq = [task |-> NullTask, ret |-> "none"]
    /\ dpc = "alive"
    /\ joining = 1
    /\ runs = [t \in TaskIds \cup Connections |-> 0]
    /\ accepted = {}
    /\ rejected = {}
    /\ queuedAtStop = -1

\* Mutant of enqueue: an empty task is refused only after the notify has
\* been armed.
enqueue_null_notifying(task) ==
    /\ cpc = "idle"
    /\ dpc # "done"
    /\ issued' = issued + 1
    /\ IF task = NullTask
       THEN /\ enq' = [task |-> task, ret |-> "InvalidTask"]
            /\ cpc' = "notify"
            /\ UNCHANGED <<tasks, accepted, rejected>>
       ELSE IF stop
       THEN /\ enq' = [task |-> task, ret |-> "PoolClosed"]
            /\ rejected' = rejected \cup {task}
            /\ UNCHANGED <<tasks, accepted, cpc>>
       ELSE /\ tasks' = Append(tasks, task)
            /\ accepted' = accepted \cup {task}
            /\ enq' = [task |-> task, ret |-> "ok"]
            /\ cpc' = "notify"
            /\ UNCHANGED rejected
    /\ UNCHANGED <<stop, active_count, wpc, wtask, notified, dpc, joining,
                   runs, queuedAtStop>>

\* Mutant of enqueue: the stop flag is not tested before the push.
enqueue_unchecked(task) ==
    /\ cpc = "idle"
    /\ dpc # "done"
    /\ issued' = issued + 1
    /\ IF task = NullTask
       THEN /\ enq' = [task |-> task, ret |-> "InvalidTask"]
            /\ UNCHANGED <<tasks, accepted, rejected, cpc>>
       ELSE /\ tasks' = Append(tasks, task)
            /\ accepted' = accepted \cup {task}
            /\ enq' = [task |-> task, ret |-> "ok"]
            /\ cpc' = "notify"
            /\ UNCHANGED rejected
    /\ UNCHANGED <<stop, active_count, wpc, wtask, notified, dpc, joining,
                   runs, queuedAtStop>>

\* void ThreadPool::enqueue(task), up to the release of queue_mutex: the
\* null test, then under the lock the stop test and the push.
enqueue(task) ==
    /\ cpc = "idle"
    /\ dpc # "done"
    /\ issued' = issued + 1
    /\ IF task = NullTask
       THEN /\ enq' = [task |-> task, ret |-> "InvalidTask"]
            /\ UNCHANGED <<tasks, accepted, rejected, cpc>>
       ELSE IF stop
       THEN /\ enq' = [task |-> task, ret |-> "PoolClosed"]
            /\ rejected' = rejected \cup {task}
            /\ UNCHANGED <<tasks, accepted, cpc>>
       ELSE /\ tasks' = Append(tasks, task)
            /\ accepted' = accepted \cup {task}
            /\ enq' = [task |-> task, ret |-> "ok"]
            /\ cpc' = "notify"
            /\ UNCHANGED rejected
    /\ UNCHANGED <<stop, active_count, wpc, wtask, notified, dpc, joining,
                   runs, queuedAtStop>>

\* The end of enqueue: condition.notify_one() wakes one blocked worker, if
\* there is one.
enqueue_notify ==
    /\ cpc = "notify"
    /\ cpc' = "idle"
    /\ IF waiters = {}
       THEN notified' = notified
       ELSE \E w \in waiters : notified' = notified \cup {w}
    /\ UNCHANGED <<stop, tasks, active_count, wpc, wtask, issued, enq, dpc,
                   joining, runs, accepted, rejected, queuedAtStop>>

\* Mutant of worker_lock: a worker returns as soon as stop is set, whatever
\* the queue holds.
worker_lock_quitting(w) ==
    /\ wpc[w] = "loop"
    /\ IF ~(stop \/ tasks # << >>)
       THEN /\ wpc' = [wpc EXCEPT ![w] = "waiting"]
            /\ UNCHANGED <<tasks, wtask>>
       ELSE IF stop
       THEN /\ wpc' = [wpc EXCEPT ![w] = "exited"]
            /\ UNCHANGED <<tasks, wtask>>
       ELSE /\ wtask' = [wtask EXCEPT ![w] = Head(tasks)]
            /\ tasks' = Tail(tasks)
            /\ wpc' = [wpc EXCEPT ![w] = "dequeued"]
    /\ UNCHANGED <<stop, active_count, notified, cpc, issued, enq, dpc,
                   joining, runs, accepted, rejected, queuedAtStop>>

\* worker_thread, the block that holds queue_mutex: the predicate of
\* condition.wait, the return on stop with an empty queue, the dequeue.
worker_lock(w) ==
    /\ wpc[w] = "loop"
    /\ IF ~(stop \/ tasks # << >>)
       THEN /\ wpc' = [wpc EXCEPT ![w] = "waiting"]
            /\ UNCHANGED <<tasks, wtask>>
       ELSE IF stop /\ tasks = << >>
       THEN /\ wpc' = [wpc EXCEPT ![w] = "exited"]
            /\ UNCHANGED <<tasks, wtask>>
       ELSE /\ wtask' = [wtask EXCEPT ![w] = Head(tasks)]
            /\ tasks' = Tail(tasks)
            /\ wpc' = [wpc EXCEPT ![w] = "dequeued"]
    /\ UNCHANGED <<stop, active_count, notified, cpc, issued, enq, dpc,
                   joining, runs, accepted, rejected, queuedAtStop>>

\* A worker blocked in condition.wait is woken by a notify and goes back to
\* take the lock and test the predicate.
worker_wake(w) ==
    /\ wpc[w] = "waiting"
    /\ w \in notified
    /\ notified' = notified \ {w}
    /\ wpc' = [wpc EXCEPT ![w] = "loop"]
    /\ UNCHANGED <<stop, tasks, active_count, wtask, cpc, issued, enq, dpc,
                   joining, runs, accepted, rejected, queuedAtStop>>

\* condition.wait may also return with no notify (a spurious wakeup).
worker_spurious(w) ==
    /\ wpc[w] = "waiting"
    /\ w \notin notified
    /\ wpc' = [wpc EXCEPT ![w] = "loop"]
    /\ UNCHANGED <<stop, tasks, active_count, wtask, notified, cpc, issued,
                   enq, dpc, joining, runs, accepted, rejected, queuedAtStop>>

\* if (task) { active_count++;
worker_begin(w) ==
    /\ wpc[w] = "dequeued"
    /\ active_count' = active_count + 1
    /\ wpc' = [wpc EXCEPT ![w] = "running"]
    /\ UNCHANGED <<stop, tasks, wtask, notified, cpc, issued, enq, dpc,
                   joining, runs, accepted, rejected, queuedAtStop>>

\* What a call of a task can do: return, throw a std::exception, throw
\* anything else.
Outcomes == {"returns", "throws_exception", "throws_other"}

\* Mutant of worker_run: an error thrown by the task leaves worker_thread.
worker_run_uncaught(w) ==
    /\ wpc[w] = "running"
    /\ runs' = [runs EXCEPT ![wtask[w]] = @ + 1]
    /\ \E outcome \in Outcomes :
          wpc' = [wpc EXCEPT ![w] = IF outcome = "returns" THEN "ran"
                                    ELSE "exited"]
    /\ UNCHANGED <<stop, tasks, active_count, wtask, notified, cpc, issued,
                   enq, dpc, joining, accepted, rejected, queuedAtStop>>

\* try { task(); } catch (const std::exception&) {...} catch (...) {...}:
\* the task runs to its end, by returning or by throwing into one of the two
\* handlers, which only log.
worker_run(w) ==
    /\ wpc[w] = "running"
    /\ runs' = [runs EXCEPT ![wtask[w]] = @ + 1]
    /\ \E outcome \in Outcomes :
          wpc' = [wpc EXCEPT ![w] = IF outcome = "returns" THEN "ran"
                                    ELSE "caught"]
    /\ UNCHANGED <<stop, tasks, active_count, wtask, notified, cpc, issued,
                   enq, dpc, joining, accepted, rejected, queuedAtStop>>

\* The task main enqueues for a connection is handle_client(client_socket),
\* which returns, or throws, only after its receive loop has ended: recv has
\* returned 0, an error or a short count, which takes a peer that has
\* closed, reset or stopped keeping to the protocol.
handle_client_ends(w, gone) ==
    /\ wtask[w] \in gone
    /\ worker_run(w)

\* Mutant of worker_end: active_count-- is skipped for a task that threw.
worker_end_leaking(w) ==
    /\ wpc[w] \in {"ran", "caught"}
    /\ active_count' = IF wpc[w] = "ran" THEN active_count - 1
                       ELSE active_count
    /\ wtask' = [wtask EXCEPT ![w] = NullTask]
    /\ wpc' = [wpc EXCEPT ![w] = "loop"]
    /\ UNCHANGED <<stop, tasks, notified, cpc, issued, enq, dpc, joining,
                   runs, accepted, rejected, queuedAtStop>>

\* active_count--; } and back to the top of the loop, where 'task' is a
\* fresh empty function.
worker_end(w) ==
    /\ wpc[w] \in {"ran", "caught"}
    /\ active_count' = active_count - 1
    /\ wtask' = [wtask EXCEPT ![w] = NullTask]
    /\ wpc' = [wpc EXCEPT ![w] = "loop"]
    /\ UNCHANGED <<stop, tasks, notified, cpc, issued, enq, dpc, joining,
                   runs, accepted, rejected, queuedAtStop>>

\* ~ThreadPool, the block that holds queue_mutex: stop = true.
destroy_stop ==
    /\ dpc = "alive"
    /\ stop' = TRUE
    /\ queuedAtStop' = Len(tasks)
    /\ dpc' = "notify"
    /\ UNCHANGED <<tasks, active_count, wpc, wtask, notified, cpc, issued,
                   enq, joining, runs, accepted, rejected>>

\* ~ThreadPool: condition.notify_all() wakes every blocked worker.
destroy_notify ==
    /\ dpc = "notify"
    /\ notified' = notified \cup waiters
    /\ dpc' = "join"
    /\ UNCHANGED <<stop, tasks, active_count, wpc, wtask, cpc, issued, enq,
                   joining, runs, accepted, rejected, queuedAtStop>>

\* ~ThreadPool: worker.join() for the next worker of the vector; after the
\* last one the destructor returns.
destroy_join ==
    /\ dpc = "join"
    /\ wpc[joining] = "exited"
    /\ IF joining = NumWorkers
       THEN dpc' = "done" /\ joining' = joining
       ELSE dpc' = dpc /\ joining' = joining + 1
    /\ UNCHANGED <<stop, tasks, active_count, wpc, wtask, notified, cpc,
                   issued, enq, runs, accepted, rejected, queuedAtStop>>

(***************************************************************************)
(* RoundRobinScheduler                                                     *)
(***************************************************************************)

nullptr == 0             \* head and current of an empty scheduler

\* ScheduledClient(fd, id): last_scheduled(0); 'next' is the place in ring.
ScheduledClient(fd, id) ==
    [socket_fd |-> fd, user_id |-> id, last_scheduled |-> 0]

\* RoundRobinScheduler(): head(nullptr), current(nullptr), client_count(0).
SchedulerInit ==
    /\ ring = << >>
    /\ current = nullptr
    /\ client_count = 0
    /\ selected = << >>
    /\ sched_call = [op |-> "RoundRobinScheduler", fd |-> nullptr]

\* The walk from the i-th node along next up to head: the place of the first
\* node whose socket_fd is fd, 0 when there is none.
RECURSIVE find_from(_, _, _)
find_from(r, fd, i) ==
    IF i > Len(r) THEN 0
    ELSE IF r[i].socket_fd = fd THEN i
    ELSE find_from(r, fd, i + 1)

\* The walk from head, as add_client, remove_client and find_client make it.
find_client(r, fd) == find_from(r, fd, 1)

\* temp->next of the i-th node: the last node's next is head.
next_of(r, i) == r[(i % Len(r)) + 1].socket_fd

\* Mutant of add_client: no check for a node with the same socket_fd.
add_client_unchecked(fd, user) ==
    /\ ring' = Append(ring, ScheduledClient(fd, user))
    /\ current' = IF ring = << >> THEN fd ELSE current
    /\ client_count' = client_count + 1
    /\ selected' = << >>
    /\ sched_call' = [op |-> "add_client", fd |-> fd]

\* Mutant of add_client: the new node becomes the head.
add_client_at_head(fd, user) ==
    /\ IF find_client(ring, fd) # 0
       THEN UNCHANGED <<ring, current, client_count>>
       ELSE /\ ring' = <<ScheduledClient(fd, user)>> \o ring
            /\ current' = IF ring = << >> THEN fd ELSE current
            /\ client_count' = client_count + 1
    /\ selected' = << >>
    /\ sched_call' = [op |-> "add_client", fd |-> fd]

\* add_client(socket_fd, user_id): return if a node has socket_fd; else the
\* new node is linked after the last one, its next being head (the first
\* node becomes head and current), and client_count++.
add_client(fd, user) ==
    /\ IF find_client(ring, fd) # 0
       THEN UNCHANGED <<ring, current, client_count>>
       ELSE /\ ring' = Append(ring, ScheduledClient(fd, user))
            /\ current' = IF ring = << >> THEN fd ELSE current
            /\ client_count' = client_count + 1
    /\ selected' = << >>
    /\ sched_call' = [op |-> "add_client", fd |-> fd]

\* Mutant of unlink: prev->next = head, the nodes after the i-th are lost.
unlink_to_head(r, i) == SubSeq(r, 1, i - 1)

\* prev->next = temp->next for the i-th node.
unlink(r, i) == SubSeq(r, 1, i - 1) \o SubSeq(r, i + 1, Len(r))

\* Mutant of remove_client: current is left on the node that is deleted.
remove_client_dangling(fd) ==
    /\ selected' = << >>
    /\ sched_call' = [op |-> "remove_client", fd |-> fd]
    /\ IF find_client(ring, fd) = 0
       THEN UNCHANGED <<ring, current, client_count>>
       ELSE /\ ring' = unlink(ring, find_client(ring, fd))
            /\ current' = IF Len(ring) = 1 THEN nullptr ELSE current
            /\ client_count' = client_count - 1

\* remove_client(socket_fd): nothing on an empty list; the only node: head
\* and current become nullptr and client_count 0; the head: last->next and
\* head become head->next, and current too if it was the old head; another
\* node: prev->next = temp->next, and current = temp->next if it was temp;
\* no such node: nothing.  client_count-- in the last two removals.
remove_client(fd) ==
    /\ selected' = << >>
    /\ sched_call' = [op |-> "remove_client", fd |-> fd]
    /\ LET i == find_client(ring, fd) IN
       IF ring = << >> \/ i = 0
       THEN UNCHANGED <<ring, current, client_count>>
       ELSE IF Len(ring) = 1
       THEN /\ ring' = << >>
            /\ current' = nullptr
            /\ client_count' = 0
       ELSE IF i = 1
       THEN /\ ring' = Tail(ring)
            /\ current' = IF current = ring[1].socket_fd
                          THEN ring[2].socket_fd ELSE current
            /\ client_count' = client_count - 1
       ELSE /\ ring' = unlink(ring, i)
            /\ current' = IF current = ring[i].socket_fd
                          THEN next_of(ring, i) ELSE current
            /\ client_count' = client_count - 1

\* Mutant of get_next_client: current is not moved.
get_next_client_staying(t) ==
    /\ selected' = Append(selected, current)
    /\ sched_call' = [op |-> "get_next_client", fd |-> current]
    /\ ring' = IF current = nullptr THEN ring
               ELSE [ring EXCEPT ![find_client(ring, current)].last_scheduled = t]
    /\ UNCHANGED <<current, client_count>>

\* get_next_client(): nullptr when current is; else selected = current,
\* selected->last_scheduled = time(nullptr), which is t, current =
\* current->next, return selected.
get_next_client(t) ==
    /\ selected' = Append(selected, current)
    /\ sched_call' = [op |-> "get_next_client", fd |-> current]
    /\ IF current = nullptr
       THEN UNCHANGED <<ring, current>>
       ELSE /\ ring' = [ring EXCEPT
                           ![find_client(ring, current)].last_scheduled = t]
            /\ current' = next_of(ring, find_client(ring, current))
    /\ UNCHANGED client_count

(***************************************************************************)
(* The server: the registry 'clients', broadcast_message, handle_client    *)
(***************************************************************************)

Handles == {1, 2, 3, 4}  \* the descriptors accept() hands out
Announced == <<"a", "b", "c", "d">>  \* the user id each connection announces
Nobody == 0              \* the owner of a mutex no thread holds
NoSocket == 0 - 1        \* the sender_socket of a leave notification

\* The statistics a reply carries: the numbers its text is formatted from.
NoStats ==
    [messages_sent |-> 0, messages_received |-> 0, active_clients |-> 0,
     cache_hits |-> 0, cache_misses |-> 0, hit_rate |-> get_hit_rate(0, 0),
     cache_size |-> 0, cache_capacity |-> 0]

\* A Message: type, sender, payload, timestamp.  'id' tells apart two calls
\* of broadcast_message whose messages are equal field by field: the
\* connection of the handler and the input the message came from; 'stats' is
\* what the payload of a statistics reply was formatted from.
Message(id, type, sender, payload, timestamp) ==
    [id |-> id, type |-> type, sender |-> sender, payload |-> payload,
     timestamp |-> timestamp, stats |-> NoStats]

\* Message(): the zeroed message a handler starts with.
NoMessage == Message(<<0, 0>>, "", "", "", 0)

\* ClientInfo as registered by handle_client; last_active, which the server
\* writes and never reads, is left out.
ClientInfo(user, t) == [user_id |-> user, connect_time |-> t, active |-> TRUE]

\* PerformanceMetrics(), without the fields the server never updates.
PerformanceMetrics ==
    [messages_sent |-> 0, messages_received |-> 0, active_clients |-> 0,
     cache_hits |-> 0, cache_misses |-> 0]

\* The globals of server.cpp before main accepts a connection, and no
\* handler running.
ServerInit ==
    /\ SchedulerInit
    /\ ReadersInit
    /\ server_running = TRUE
    /\ clients = << >>
    /\ clients_mutex = Nobody
    /\ metrics_mutex = Nobody
    /\ metrics = PerformanceMetrics
    /\ hpc = [h \in Handles |-> "closed"]
    /\ user_id = [h \in Handles |-> ""]
    /\ msg = [h \in Handles |-> NoMessage]
    /\ cursor = [h \in Handles |-> 0]
    /\ failed_sockets = [h \in Handles |-> << >>]
    /\ attempted = [h \in Handles |-> << >>]
    /\ inbox = [h \in Handles |-> << >>]
    /\ conn = [h \in Handles |-> 0]
    /\ peer_gone = [h \in Handles |-> FALSE]
    /\ mpc = "accept"
    /\ accepts = 0
    /\ inputs = 0
    /\ texts = 0

\* A step of handler h that moves it to position p.
goto(h, p) == hpc' = [hpc EXCEPT ![h] = p]

\* The first entry of a non-empty set of descriptors, in map order.
first(fds) == CHOOSE fd \in fds : \A other \in fds : fd <= other

\* The descriptors of a set in map order.
RECURSIVE in_order(_)
in_order(fds) ==
    IF fds = {} THEN << >>
    ELSE <<first(fds)>> \o in_order(fds \ {first(fds)})

\* main: accept() returns the lowest descriptor no connection uses and the
\* pool runs handle_client(client_socket), which receives the user id: name
\* is what the client sent, "" standing for an empty or oversized id or a
\* failed recv, after which the handler closes the socket and returns.
\* main then takes metrics_mutex for active_threads, for which it waits
\* when it is held.
accept(h, name) ==
    /\ mpc = "accept"
    /\ mpc' = IF metrics_mutex = Nobody THEN "accept" ELSE "active_threads"
    /\ hpc[h] = "closed"
    /\ h = first({fd \in Handles : hpc[fd] = "closed"})
    /\ accepts < Len(Announced)
    /\ inputs < MaxInputs
    /\ inputs' = inputs + 1
    /\ accepts' = accepts + 1
    /\ IF name = ""
       THEN UNCHANGED <<hpc, user_id, conn, inbox>>
       ELSE /\ goto(h, "register")
            /\ user_id' = [user_id EXCEPT ![h] = name]
            /\ conn' = [conn EXCEPT ![h] = accepts + 1]
            /\ inbox' = [inbox EXCEPT ![h] = << >>]
    /\ UNCHANGED <<clients, clients_mutex, metrics_mutex, metrics, msg,
                   cursor, failed_sockets, attempted, peer_gone, texts>>

\* main: metrics.active_threads is stored once metrics_mutex is free, and
\* the accept loop goes on.
active_threads ==
    /\ mpc = "active_threads"
    /\ metrics_mutex = Nobody
    /\ mpc' = "accept"
    /\ UNCHANGED <<clients, clients_mutex, metrics_mutex, metrics, hpc,
                   user_id, msg, cursor, failed_sockets, attempted, inbox,
                   conn, peer_gone, accepts, inputs, texts>>

\* clients[client_socket] = info
register_client(c, fd, user, t) == assign(c, fd, ClientInfo(user, t))

\* The join notification handle_client builds after registering.
join_msg(h, t) ==
    Message(<<conn[h], 0>>, "MSG_JOIN", user_id[h],
            user_id[h] \o " has joined the chat", t)

\* handle_client, the end of the "Register client" block: under
\* metrics_mutex active_clients++, and both mutexes are released.
registered(h) ==
    /\ metrics' = [metrics EXCEPT !.active_clients = @ + 1]
    /\ clients_mutex' = Nobody
    /\ msg' = msg
    /\ goto(h, "add_client")

\* handle_client, "Register client": under clients_mutex the record is
\* stored, then metrics_mutex is taken.  When that is held the handler waits
\* with clients_mutex held, for ever: metrics_mutex is held across steps
\* only by update_metrics, which then wants clients_mutex, and by the relock
\* of read_page_faults.
register(h) ==
    /\ hpc[h] = "register"
    /\ clients_mutex = Nobody
    /\ clients' = register_client(clients, h, user_id[h], now)
    /\ IF metrics_mutex = Nobody
       THEN registered(h)
       ELSE /\ clients_mutex' = h
            /\ goto(h, "register_metrics")
            /\ UNCHANGED <<metrics, msg>>
    /\ UNCHANGED <<metrics_mutex, user_id, cursor, failed_sockets,
                   attempted, inbox, conn, peer_gone, mpc, accepts, inputs,
                   texts>>

\* handle_client, "Add to scheduler" and "Send join notification":
\* scheduler.add_client(client_socket, user_id), then the join notification
\* is built, its timestamp being time(nullptr), and
\* broadcast_message(join_msg, client_socket) is called.
join(h) ==
    /\ hpc[h] = "add_client"
    /\ add_client(h, user_id[h])
    /\ msg' = [msg EXCEPT ![h] = join_msg(h, now)]
    /\ goto(h, "bc_lock")
    /\ UNCHANGED <<clients, clients_mutex, metrics_mutex, metrics, user_id,
                   cursor, failed_sockets, attempted, inbox, conn,
                   peer_gone, mpc, accepts, inputs, texts>>

\* Mutant of sender_socket: no connection is excluded from a broadcast.
sender_socket_none(h) == NoSocket

\* The sender_socket handle_client passes with the message it broadcasts.
sender_socket(h) == IF msg[h].type = "MSG_LEAVE" THEN NoSocket ELSE h

\* Mutant of is_target: every registered connection is sent to.
is_target_any(fd, client_info, sender) == TRUE

\* if (socket_fd != sender_socket && client_info.active)
is_target(fd, client_info, sender) == fd # sender /\ client_info.active

\* The entries the loop of broadcast_message has still to send to.
remaining(h) ==
    {fd \in DOMAIN clients :
        fd > cursor[h] /\ is_target(fd, clients[fd], sender_socket(h))}

\* What the loop of broadcast_message adds to 'attempted' for the entries
\* 'visited', of which those of 'sent_to' took the message.
attempts(visited, sent_to) ==
    [k \in 1..Cardinality(visited) |->
        [fd |-> in_order(visited)[k],
         conn |-> conn[in_order(visited)[k]],
         sent |-> in_order(visited)[k] \in sent_to]]

\* broadcast_message, the loop over clients from the entry after cursor.
\* Each entry to send to is sent to once, in map order; send returns a
\* positive count (the message is on the socket) for the entries outside
\* 'failing' and the others go to failed_sockets.  After a send that worked
\* metrics_mutex is taken for messages_sent++: when it is held the thread
\* waits for it there with clients_mutex held, as in register; otherwise
\* the loop runs to its end and clients_mutex is released.
send_loop(h, failing) ==
    LET working == remaining(h) \ failing
        blocked == metrics_mutex # Nobody /\ working # {}
        sent_to == IF blocked THEN {first(working)} ELSE working
        visited == IF blocked
                   THEN {fd \in remaining(h) : fd <= first(working)}
                   ELSE remaining(h)
        failed == visited \ sent_to
    IN  /\ failing \subseteq visited
        /\ inbox' = [fd \in Handles |->
                        IF fd \in sent_to THEN Append(inbox[fd], msg[h])
                        ELSE inbox[fd]]
        /\ failed_sockets' = [failed_sockets EXCEPT ![h] =
                                 @ \o in_order(failed)]
        /\ attempted' = [attempted EXCEPT ![h] =
                            @ \o attempts(visited, sent_to)]
        /\ IF blocked
           THEN /\ metrics' = metrics
                /\ cursor' = [cursor EXCEPT ![h] = first(working)]
                /\ clients_mutex' = h
                /\ goto(h, "bc_count")
           ELSE /\ metrics' = [metrics EXCEPT !.messages_sent =
                                  @ + Cardinality(sent_to)]
                /\ cursor' = [cursor EXCEPT ![h] = 0]
                /\ clients_mutex' = Nobody
                /\ goto(h, IF failed_sockets'[h] = << >> THEN "bc_insert"
                           ELSE "bc_flag")

\* Mutant of bc_lock: the loop over clients runs without clients_mutex,
\* one entry at a time.
bc_lock_free(h) ==
    /\ hpc[h] = "bc_lock"
    /\ IF remaining(h) = {}
       THEN /\ goto(h, "bc_insert")
            /\ cursor' = [cursor EXCEPT ![h] = 0]
            /\ UNCHANGED <<inbox, attempted, metrics>>
       ELSE /\ inbox' = [inbox EXCEPT ![first(remaining(h))] =
                            Append(@, msg[h])]
            /\ attempted' = [attempted EXCEPT ![h] =
                  @ \o attempts({first(remaining(h))}, {first(remaining(h))})]
            /\ metrics' = [metrics EXCEPT !.messages_sent = @ + 1]
            /\ cursor' = [cursor EXCEPT ![h] = first(remaining(h))]
            /\ hpc' = hpc
    /\ UNCHANGED <<clients, clients_mutex, metrics_mutex, user_id, msg,
                   failed_sockets, conn, peer_gone, mpc, accepts, inputs,
                   texts>>

\* The entries of the rest of the loop whose send may fail: those whose
\* peer is gone.
may_fail(h) == {fd \in remaining(h) : peer_gone[fd]}

\* broadcast_message: std::lock_guard lock(clients_mutex) and the loop
\* over clients.
bc_lock(h) ==
    /\ hpc[h] = "bc_lock"
    /\ clients_mutex = Nobody
    /\ \E failing \in SUBSET may_fail(h) : send_loop(h, failing)
    /\ UNCHANGED <<clients, metrics_mutex, user_id, msg, conn, peer_gone,
                   mpc, accepts, inputs, texts>>

\* it = clients.find(fd); if (it != clients.end()) it->second.active = false
mark_inactive(c, fd) ==
    IF fd \in DOMAIN c THEN [c EXCEPT ![fd].active = FALSE] ELSE c

\* broadcast_message, one round of the loop over failed_sockets: under
\* clients_mutex the entry of fd, if the registry has one, gets
\* active = false.
bc_flag(h) ==
    /\ hpc[h] = "bc_flag"
    /\ clients_mutex = Nobody
    /\ clients' = mark_inactive(clients, Head(failed_sockets[h]))
    /\ failed_sockets' = [failed_sockets EXCEPT ![h] = Tail(@)]
    /\ IF Tail(failed_sockets[h]) = << >>
       THEN goto(h, "bc_insert")
       ELSE hpc' = hpc
    /\ UNCHANGED <<clients_mutex, metrics_mutex, metrics, user_id, msg,
                   cursor, attempted, inbox, conn, peer_gone, mpc, accepts,
                   inputs, texts>>

\* broadcast_message: message_cache.insert(msg.sender, msg.payload,
\* msg.timestamp), and the return to handle_client: after the join
\* notification to the receive loop, after a text message to the loop over
\* the three previous seconds, after the leave notification to
\* close(client_socket), which frees the descriptor.
bc_insert(h) ==
    /\ hpc[h] = "bc_insert"
    /\ insert(msg[h].sender, msg[h].payload, msg[h].timestamp, now)
    /\ attempted' = [attempted EXCEPT ![h] = << >>]
    /\ goto(h, IF msg[h].type = "MSG_TEXT" THEN "text_recent"
               ELSE IF msg[h].type = "MSG_JOIN" THEN "recv"
               ELSE "closed")
    /\ texts' = IF msg[h].type = "MSG_TEXT" THEN texts + 1 ELSE texts
    /\ msg' = IF msg[h].type = "MSG_TEXT" THEN msg
              ELSE [msg EXCEPT ![h] = NoMessage]
    /\ user_id' = IF msg[h].type = "MSG_LEAVE"
                  THEN [user_id EXCEPT ![h] = ""] ELSE user_id
    /\ peer_gone' = IF msg[h].type = "MSG_LEAVE"
                    THEN [peer_gone EXCEPT ![h] = FALSE] ELSE peer_gone
    /\ UNCHANGED <<clients, clients_mutex, metrics_mutex, metrics, cursor,
                   failed_sockets, inbox, conn, mpc, accepts, inputs>>

\* The frames a client sends: a text with its payload, a status request,
\* frames of types the switch has no case for.
Frames ==
    {[type |-> "MSG_TEXT", payload |-> c] : c \in Contents}
        \cup {[type |-> "MSG_STATUS", payload |-> ""],
              [type |-> "MSG_AUDIO", payload |-> ""],
              [type |-> "MSG_JOIN", payload |-> ""]}

\* Mutant of dispatch: the default case broadcasts the frame like a text.
dispatch_any(h, m) ==
    IF m.type # "MSG_STATUS"
    THEN /\ lookup(generate_message_id(m.sender, m.timestamp - 5))
         /\ msg' = [msg EXCEPT ![h] = [m EXCEPT !.timestamp = now]]
         /\ goto(h, "bc_lock")
    ELSE /\ goto(h, "update_metrics")
         /\ msg' = [msg EXCEPT ![h] = NoMessage]
         /\ UNCHANGED cacheVars

\* handle_client, the switch on msg.type for the frame m.  case MSG_TEXT: the
\* lookup of sender_(timestamp - 5), msg.timestamp = time(nullptr) and the
\* call of broadcast_message; case MSG_STATUS: the call of update_metrics;
\* default: back to the receive loop.
dispatch(h, m) ==
    IF m.type = "MSG_TEXT"
    THEN /\ lookup(generate_message_id(m.sender, m.timestamp - 5))
         /\ msg' = [msg EXCEPT ![h] = [m EXCEPT !.timestamp = now]]
         /\ goto(h, "bc_lock")
    ELSE /\ goto(h, IF m.type = "MSG_STATUS" THEN "update_metrics" ELSE "recv")
         /\ msg' = [msg EXCEPT ![h] = NoMessage]
         /\ UNCHANGED cacheVars

\* handle_client, "Update last active time": under clients_mutex, for which
\* the handler waits when it is held (by a thread that waits for
\* metrics_mutex, see register); then the switch.
touch_then(h, m) ==
    IF clients_mutex = Nobody
    THEN dispatch(h, m)
    ELSE /\ goto(h, "touch")
         /\ msg' = [msg EXCEPT ![h] = m]
         /\ UNCHANGED cacheVars

\* handle_client, the receive loop: recv returns a whole frame, whose
\* sender is the client's user id and whose timestamp is the client's
\* clock; metrics_mutex is taken for messages_received++ (the handler waits
\* for it when it is held), then clients_mutex, then the switch.
recv_frame(h, frame) ==
    /\ hpc[h] = "recv"
    /\ ~peer_gone[h]
    /\ inputs < MaxInputs
    /\ inputs' = inputs + 1
    /\ LET m == Message(<<conn[h], inputs + 1>>, frame.type, user_id[h],
                        frame.payload, now) IN
       IF metrics_mutex = Nobody
       THEN /\ metrics' = [metrics EXCEPT !.messages_received = @ + 1]
            /\ touch_then(h, m)
       ELSE /\ metrics' = metrics
            /\ goto(h, "received")
            /\ msg' = [msg EXCEPT ![h] = m]
            /\ UNCHANGED cacheVars
    /\ UNCHANGED <<clients, clients_mutex, metrics_mutex, user_id, cursor,
                   failed_sockets, attempted, inbox, conn, peer_gone, mpc,
                   accepts, texts>>

\* handle_client: messages_received++ once metrics_mutex is free.
received(h) ==
    /\ hpc[h] = "received"
    /\ metrics_mutex = Nobody
    /\ metrics' = [metrics EXCEPT !.messages_received = @ + 1]
    /\ touch_then(h, msg[h])
    /\ UNCHANGED <<clients, clients_mutex, metrics_mutex, user_id, cursor,
                   failed_sockets, attempted, inbox, conn, peer_gone, mpc,
                   accepts, inputs, texts>>

\* The fingerprints the loop after a text message looks up:
\* user_id + "_" + to_string(msg.timestamp - i) for i = 1, 2, 3.
recent_ids(h) ==
    {generate_message_id(user_id[h], msg[h].timestamp - i) : i \in 1..3}

\* case MSG_TEXT, for (i = 1; i <= 3; i++): message_cache.lookup of each
\* fingerprint and, on a hit, message_cache.update_access of it.  Each
\* round only takes cache_mutex; the three rounds are one step.
text_recent(h) ==
    /\ hpc[h] = "text_recent"
    /\ LET hit == {id \in recent_ids(h) : found(id)}
           last == generate_message_id(user_id[h], msg[h].timestamp - 3)
       IN /\ hits' = hits + Cardinality(hit)
          /\ misses' = misses + (3 - Cardinality(hit))
          /\ lookups' = lookups + 3
          /\ cache' = [i \in DOMAIN cache |->
                          IF \E id \in hit : index_map[id] = i
                          THEN [cache[i] EXCEPT !.last_access = now,
                                                !.access_count = @ + 1]
                          ELSE cache[i]]
          /\ call' = IF last \in hit
                     THEN [op |-> "update_access", id |-> last, ret |-> TRUE]
                     ELSE [op |-> "lookup", id |-> last, ret |-> FALSE,
                           content |-> ""]
    /\ goto(h, "recv")
    /\ msg' = [msg EXCEPT ![h] = NoMessage]
    /\ UNCHANGED <<capacity, size, index_map, now>>
    /\ UNCHANGED <<clients, clients_mutex, metrics_mutex, metrics, user_id,
                   cursor, failed_sockets, attempted, inbox, conn,
                   peer_gone, mpc, accepts, inputs, texts>>

\* What read_page_faults meets: no line to count (the file cannot be opened,
\* or the build is not for Linux), or a VmHWM/VmRSS line, at which it locks
\* metrics_mutex, which its caller update_metrics holds.  Locking a
\* std::mutex the thread owns is undefined: the thread blocks for ever, or
\* the lock fails with an error that the catch of read_page_faults drops.
PageFaultOutcomes == {"no_line", "relock_blocks", "relock_fails"}

\* read_page_faults as update_metrics calls it, and the return of
\* update_metrics, which releases metrics_mutex.
read_page_faults(h, outcome) ==
    IF outcome = "relock_blocks"
    THEN /\ goto(h, "relock")
         /\ metrics_mutex' = h
    ELSE /\ goto(h, "stats_format")
         /\ metrics_mutex' = Nobody

\* update_metrics: active_clients = clients.size(), the copies of the
\* cache's counters, read_page_faults().
snapshot(h, outcome) ==
    /\ metrics' = [metrics EXCEPT
                      !.active_clients = Cardinality(DOMAIN clients),
                      !.cache_hits = hits,
                      !.cache_misses = misses]
    /\ read_page_faults(h, outcome)

\* case MSG_STATUS: update_metrics() takes metrics_mutex.
update_metrics(h) ==
    /\ hpc[h] = "update_metrics"
    /\ metrics_mutex = Nobody
    /\ metrics_mutex' = h
    /\ goto(h, "um_clients")
    /\ UNCHANGED <<clients, clients_mutex, metrics, user_id, msg, cursor,
                   failed_sockets, attempted, inbox, conn, peer_gone, mpc,
                   accepts, inputs, texts>>

\* update_metrics with metrics_mutex held: clients_mutex is taken for
\* clients.size() and released, then the rest of the snapshot.
um_clients(h, outcome) ==
    /\ hpc[h] = "um_clients"
    /\ clients_mutex = Nobody
    /\ snapshot(h, outcome)
    /\ UNCHANGED <<clients, clients_mutex, user_id, msg, cursor,
                   failed_sockets, attempted, inbox, conn, peer_gone, mpc,
                   accepts, inputs, texts>>

\* The statistics message: type MSG_TEXT, sender "SERVER", the payload
\* formatted under metrics_mutex from metrics and from the cache.
stats_msg ==
    [Message(<<0, 0>>, "MSG_TEXT", "SERVER", "SERVER STATISTICS", now)
     EXCEPT !.stats =
        [messages_sent |-> metrics.messages_sent,
         messages_received |-> metrics.messages_received,
         active_clients |-> metrics.active_clients,
         cache_hits |-> metrics.cache_hits,
         cache_misses |-> metrics.cache_misses,
         hit_rate |-> get_hit_rate(hits, misses),
         cache_size |-> size,
         cache_capacity |-> capacity]]

\* case MSG_STATUS: the statistics message is built once metrics_mutex is
\* free.
stats_format(h) ==
    /\ hpc[h] = "stats_format"
    /\ metrics_mutex = Nobody
    /\ msg' = [msg EXCEPT ![h] = stats_msg]
    /\ goto(h, "stats_send")
    /\ UNCHANGED <<clients, clients_mutex, metrics_mutex, metrics, user_id,
                   cursor, failed_sockets, attempted, inbox, conn,
                   peer_gone, mpc, accepts, inputs, texts>>

\* Mutant of stats_send: the statistics go to every registered connection.
stats_send_all(h) ==
    /\ hpc[h] = "stats_send"
    /\ inbox' = [fd \in Handles |->
                    IF fd \in DOMAIN clients THEN Append(inbox[fd], msg[h])
                    ELSE inbox[fd]]
    /\ msg' = [msg EXCEPT ![h] = NoMessage]
    /\ goto(h, IF metrics_mutex = Nobody THEN "recv" ELSE "print_statistics")
    /\ UNCHANGED <<clients, clients_mutex, metrics_mutex, metrics, user_id,
                   cursor, failed_sockets, attempted, conn, peer_gone, mpc,
                   accepts, inputs, texts>>

\* case MSG_STATUS: send(client_socket, &stats_msg, ...), which may fail
\* once the peer is gone, then print_statistics(), which takes
\* metrics_mutex and for which the handler waits when it is held.
stats_send(h) ==
    /\ hpc[h] = "stats_send"
    /\ \E sent \in {TRUE, ~peer_gone[h]} :
          inbox' = IF sent THEN [inbox EXCEPT ![h] = Append(@, msg[h])]
                   ELSE inbox
    /\ msg' = [msg EXCEPT ![h] = NoMessage]
    /\ goto(h, IF metrics_mutex = Nobody THEN "recv" ELSE "print_statistics")
    /\ UNCHANGED <<clients, clients_mutex, metrics_mutex, metrics, user_id,
                   cursor, failed_sockets, attempted, conn, peer_gone, mpc,
                   accepts, inputs, texts>>

\* print_statistics once metrics_mutex is free, and back to the receive
\* loop.
print_statistics(h) ==
    /\ hpc[h] = "print_statistics"
    /\ metrics_mutex = Nobody
    /\ goto(h, "recv")
    /\ UNCHANGED <<clients, clients_mutex, metrics_mutex, metrics, user_id,
                   msg, cursor, failed_sockets, attempted, inbox, conn,
                   peer_gone, mpc, accepts, inputs, texts>>

\* The leave notification handle_client builds after the cleanup block.
leave_msg(h, t) ==
    Message(<<conn[h], 0 - 1>>, "MSG_LEAVE", user_id[h],
            user_id[h] \o " has left the chat", t)

\* handle_client, the end of the cleanup block: under metrics_mutex
\* active_clients is decremented if positive; then the leave notification
\* is built, its timestamp being time(nullptr), and
\* broadcast_message(leave_msg, -1) is called.
unregistered(h) ==
    /\ metrics' = [metrics EXCEPT !.active_clients =
                      IF @ > 0 THEN @ - 1 ELSE @]
    /\ clients_mutex' = Nobody
    /\ msg' = [msg EXCEPT ![h] = leave_msg(h, now)]
    /\ goto(h, "bc_lock")

\* handle_client, "Client cleanup": under clients_mutex the entry is erased,
\* then metrics_mutex is taken, for which the handler waits with
\* clients_mutex held, as in register.
erase_client(h) ==
    /\ clients' = erase(clients, h)
    /\ IF metrics_mutex = Nobody
       THEN unregistered(h)
       ELSE /\ clients_mutex' = h
            /\ goto(h, "cleanup_metrics")
            /\ UNCHANGED <<metrics, msg>>

\* The peer of the connection h closes or resets it: from now on recv
\* returns 0 or an error and send may fail.
disconnect(h) ==
    /\ hpc[h] # "closed"
    /\ ~peer_gone[h]
    /\ inputs < MaxInputs
    /\ inputs' = inputs + 1
    /\ peer_gone' = [peer_gone EXCEPT ![h] = TRUE]
    /\ UNCHANGED <<clients, clients_mutex, metrics_mutex, metrics, hpc,
                   user_id, msg, cursor, failed_sockets, attempted, inbox,
                   conn, mpc, accepts, texts>>

\* Mutant of leave_loop: the connection is left in the scheduler.
leave_loop_scheduled(h) ==
    /\ UNCHANGED <<ring, current, client_count, selected, sched_call>>
    /\ goto(h, "cleanup")
    /\ UNCHANGED <<clients, clients_mutex, metrics_mutex, metrics, user_id,
                   msg, cursor, failed_sockets, attempted, inbox, conn,
                   peer_gone, mpc, accepts, texts>>

\* handle_client, "Client cleanup": scheduler.remove_client(client_socket).
leave_loop(h) ==
    /\ remove_client(h)
    /\ goto(h, "cleanup")
    /\ UNCHANGED <<clients, clients_mutex, metrics_mutex, metrics, user_id,
                   msg, cursor, failed_sockets, attempted, inbox, conn,
                   peer_gone, mpc, accepts, texts>>

\* handle_client, the receive loop on a connection whose peer is gone: recv
\* returns 0 or an error other than a timeout: break.
recv_end(h) ==
    /\ hpc[h] = "recv"
    /\ peer_gone[h]
    /\ inputs' = inputs
    /\ leave_loop(h)

\* handle_client, the receive loop: recv returns a count that is positive
\* and not sizeof(Message), a frame cut short or run together with the
\* next: break.
recv_short(h) ==
    /\ hpc[h] = "recv"
    /\ ~peer_gone[h]
    /\ inputs < MaxInputs
    /\ inputs' = inputs + 1
    /\ leave_loop(h)

\* handle_client, the block after "Client cleanup", once clients_mutex is
\* free.
cleanup(h) ==
    /\ hpc[h] = "cleanup"
    /\ clients_mutex = Nobody
    /\ erase_client(h)
    /\ UNCHANGED <<metrics_mutex, user_id, cursor, failed_sockets,
                   attempted, inbox, conn, peer_gone, mpc, accepts, inputs,
                   texts>>

\* signal_handler(signum) for the first SIGINT or SIGTERM:
\* server_running.compare_exchange_strong(expected, false) succeeds.  A
\* second signal finds the flag cleared and ends the process by exit(0).
signal_handler ==
    /\ server_running
    /\ inputs <= SignalBy
    /\ inputs < MaxInputs
    /\ inputs' = inputs + 1
    /\ server_running' = FALSE
    /\ UNCHANGED <<clients, clients_mutex, metrics_mutex, metrics, hpc,
                   user_id, msg, cursor, failed_sockets, attempted, inbox,
                   conn, peer_gone, mpc, accepts, texts>>

\* handle_client, while (server_running.load()) at the top of the receive
\* loop, with the flag cleared: the loop ends and the cleanup begins.
loop_exit(h) ==
    /\ hpc[h] = "recv"
    /\ ~server_running
    /\ inputs' = inputs
    /\ leave_loop(h)

\* main leaves the accept loop with the flag cleared and calls
\* cleanup_server: under clients_mutex every socket of an active entry is
\* closed and clients.clear().  The scheduler and metrics are not touched.
cleanup_server ==
    /\ mpc = "accept"
    /\ ~server_running
    /\ clients_mutex = Nobody
    /\ clients' = << >>
    /\ mpc' = "final_statistics"
    /\ UNCHANGED <<clients_mutex, metrics_mutex, metrics, hpc, user_id, msg,
                   cursor, failed_sockets, attempted, inbox, conn,
                   peer_gone, accepts, inputs, texts>>

\* cleanup_server after the sleep: print_statistics() takes metrics_mutex;
\* main then leaves the block of thread_pool, whose destructor joins the
\* workers.
final_statistics ==
    /\ mpc = "final_statistics"
    /\ metrics_mutex = Nobody
    /\ mpc' = "join"
    /\ UNCHANGED <<clients, clients_mutex, metrics_mutex, metrics, hpc,
                   user_id, msg, cursor, failed_sockets, attempted, inbox,
                   conn, peer_gone, accepts, inputs, texts>>

\* ~ThreadPool: worker.join() returns for every worker once the
\* handle_client each was running has returned; main returns.
join_workers ==
    /\ mpc = "join"
    /\ \A h \in Handles : hpc[h] = "closed"
    /\ mpc' = "exited"
    /\ UNCHANGED <<clients, clients_mutex, metrics_mutex, metrics, hpc,
                   user_id, msg, cursor, failed_sockets, attempted, inbox,
                   conn, peer_gone, accepts, inputs, texts>>

\* The "Register client" block of handle_client run from its first line to
\* its last for the descriptor fd and the user id user.
register_block(fd, user) ==
    /\ clients_mutex = Nobody
    /\ metrics_mutex = Nobody
    /\ metrics.active_clients < MaxCount
    /\ clients' = register_client(clients, fd, user, now)
    /\ metrics' = [metrics EXCEPT !.active_clients = @ + 1]
    /\ UNCHANGED <<clients_mutex, metrics_mutex, hpc, user_id, msg, cursor,
                   failed_sockets, attempted, inbox, conn, peer_gone, mpc,
                   accepts, inputs, texts>>

\* The second pass of broadcast_message for one failed descriptor.
flag_block(fd) ==
    /\ clients_mutex = Nobody
    /\ clients' = mark_inactive(clients, fd)
    /\ UNCHANGED <<clients_mutex, metrics_mutex, metrics, hpc, user_id, msg,
                   cursor, failed_sockets, attempted, inbox, conn,
                   peer_gone, mpc, accepts, inputs, texts>>

\* The block after "Client cleanup" of handle_client for the descriptor fd.
cleanup_block(fd) ==
    /\ clients_mutex = Nobody
    /\ metrics_mutex = Nobody
    /\ clients' = erase(clients, fd)
    /\ metrics' = [metrics EXCEPT !.active_clients =
                      IF @ > 0 THEN @ - 1 ELSE @]
    /\ UNCHANGED <<clients_mutex, metrics_mutex, hpc, user_id, msg, cursor,
                   failed_sockets, attempted, inbox, conn, peer_gone, mpc,
                   accepts, inputs, texts>>

\* A second passes: time(nullptr) returns one more.
tick ==
    /\ now < MaxTime
    /\ inputs < MaxInputs
    /\ inputs' = inputs + 1
    /\ now' = now + 1
    /\ UNCHANGED <<capacity, cache, size, index_map, hits, misses, call,
                   lookups>>
    /\ UNCHANGED <<clients, clients_mutex, metrics_mutex, metrics, hpc,
                   user_id, msg, cursor, failed_sockets, attempted, inbox,
                   conn, peer_gone, mpc, accepts, texts>>

Insert ==
    \E pair \in Messages, c \in Contents, t \in Times :
        /\ t >= now
        /\ insert(pair[1], c, pair[2], t)
        /\ UNCHANGED <<poolVars, schedVars, serverVars, processVars>>

Lookup ==
    /\ lookups < MaxLookups
    /\ \E id \in MessageIds : lookup(id)
    /\ UNCHANGED <<poolVars, schedVars, serverVars, processVars>>

UpdateAccess ==
    \E id \in MessageIds, t \in Times :
        /\ t >= now
        /\ found(id) => cache[index_map[id]].access_count < MaxAccess
        /\ update_access(id, t)
        /\ UNCHANGED <<poolVars, schedVars, serverVars, processVars>>

Clear == clear /\ UNCHANGED <<poolVars, schedVars, serverVars, processVars>>

GetHitRate == hit_rate_call /\ UNCHANGED <<poolVars, schedVars, serverVars, processVars>>

Enqueue ==
    /\ issued < MaxTasks
    /\ \E task \in {NullTask, issued + 1} : enqueue(task)
    /\ UNCHANGED <<cacheVars, schedVars, serverVars, processVars>>

EnqueueNotify == enqueue_notify /\ UNCHANGED <<cacheVars, schedVars, serverVars, processVars>>

WorkerLock == (\E w \in Workers : worker_lock(w)) /\ UNCHANGED <<cacheVars, schedVars, serverVars, processVars>>

WorkerWake == (\E w \in Workers : worker_wake(w)) /\ UNCHANGED <<cacheVars, schedVars, serverVars, processVars>>

WorkerSpurious == (\E w \in Workers : worker_spurious(w)) /\ UNCHANGED <<cacheVars, schedVars, serverVars, processVars>>

WorkerBegin == (\E w \in Workers : worker_begin(w)) /\ UNCHANGED <<cacheVars, schedVars, serverVars, processVars>>

WorkerRun == (\E w \in Workers : worker_run(w)) /\ UNCHANGED <<cacheVars, schedVars, serverVars, processVars>>

WorkerEnd == (\E w \in Workers : worker_end(w)) /\ UNCHANGED <<cacheVars, schedVars, serverVars, processVars>>

DestroyStop == destroy_stop /\ UNCHANGED <<cacheVars, schedVars, serverVars, processVars>>

DestroyNotify == destroy_notify /\ UNCHANGED <<cacheVars, schedVars, serverVars, processVars>>

DestroyJoin == destroy_join /\ UNCHANGED <<cacheVars, schedVars, serverVars, processVars>>

Init == CacheInit /\ PoolInit /\ ServerInit

CacheNext == Insert \/ Lookup \/ UpdateAccess \/ Clear

Spec == Init /\ [][CacheNext]_vars

\* test_concurrent_access: threads that insert and threads that look up.
\* insert holds the lock in exclusive mode, so it runs when no reader is in
\* lookup; the readers take the steps of lookup in any order.
ConcurrentNext ==
    \/ /\ \A r \in Readers : readers[r].pc = "idle"
       /\ Insert
    \/ /\ lookups < MaxLookups
       /\ \E r \in Readers, id \in MessageIds : lookup_find(r, id)
    \/ \E r \in Readers : lookup_load(r)
    \/ \E r \in Readers : lookup_store(r)

ConcurrentSpec == Init /\ [][ConcurrentNext]_vars

\* The cache after insert("a", "x", 1) at time 0 followed by h lookups of
\* "a_1" and m lookups of "nonexistent_message", for every h and m up to
\* MaxCount: the counters get_hit_rate is applied to.
HitRateInit ==
    /\ capacity \in Capacities
    /\ cache = [i \in 0..(capacity - 1) |->
                   IF i = 0 THEN new_entry("a_1", "a", "x", 1, 0) ELSE CacheEntry]
    /\ size = 1
    /\ index_map = [id \in {"a_1"} |-> 0]
    /\ hits \in 0..MaxCount
    /\ misses \in 0..MaxCount
    /\ lookups = hits + misses
    /\ now = 0
    /\ call = IF misses > 0
              THEN [op |-> "lookup", id |-> "nonexistent_message",
                    ret |-> FALSE, content |-> ""]
              ELSE IF hits > 0
              THEN [op |-> "lookup", id |-> "a_1", ret |-> TRUE,
                    content |-> "x"]
              ELSE [op |-> "insert", id |-> "a_1", sender |-> "a",
                    timestamp |-> 1, content |-> "x", ret |-> TRUE,
                    evicted |-> ""]
    /\ PoolInit
    /\ ServerInit

HitRateNext == GetHitRate \/ Clear

HitRateSpec == HitRateInit /\ [][HitRateNext]_vars

PoolNext ==
    \/ Enqueue \/ EnqueueNotify
    \/ WorkerLock \/ WorkerWake \/ WorkerSpurious
    \/ WorkerBegin \/ WorkerRun \/ WorkerEnd
    \/ DestroyStop \/ DestroyNotify \/ DestroyJoin

\* Every thread that can take a step eventually takes it and every task
\* terminates; nothing obliges a caller to enqueue, the owner to destroy the
\* pool, or a wait to return spuriously.
PoolFairness ==
    /\ WF_vars(EnqueueNotify)
    /\ WF_vars(DestroyNotify \/ DestroyJoin)
    /\ \A w \in Workers :
        WF_vars((\/ worker_lock(w) \/ worker_wake(w) \/ worker_begin(w)
                 \/ worker_run(w) \/ worker_end(w)) /\ UNCHANGED <<cacheVars, schedVars, serverVars, processVars>>)

\* The pool of the server, beside the server's cache.
PoolInitial == ServerCacheInit /\ PoolInit /\ ServerInit

PoolSpec == PoolInitial /\ [][PoolNext]_vars /\ PoolFairness

\* main: accept() returns the next connection and thread_pool.enqueue is
\* called with handle_client(client_socket).
AcceptConnection ==
    /\ issued < NumWorkers + 1
    /\ enqueue(issued + 1)
    /\ UNCHANGED <<cacheVars, schedVars, serverVars, processVars>>

HandleClientEnds ==
    /\ \E w \in Workers :
          handle_client_ends(w, {c \in Connections : peer_gone[c]})
    /\ UNCHANGED <<cacheVars, schedVars, serverVars, processVars>>

\* The peer of a connection the server has accepted closes it.
HangUp ==
    /\ \E c \in accepted : ~peer_gone[c] /\ peer_gone' = [peer_gone EXCEPT ![c] = TRUE]
    /\ UNCHANGED <<clients, clients_mutex, metrics_mutex, metrics, hpc,
                   user_id, msg, cursor, failed_sockets, attempted, inbox,
                   conn, mpc, accepts, inputs, texts>>
    /\ UNCHANGED <<cacheVars, poolVars, schedVars, processVars>>

ConnectionNext ==
    \/ AcceptConnection \/ EnqueueNotify
    \/ WorkerLock \/ WorkerWake \/ WorkerSpurious
    \/ WorkerBegin \/ HandleClientEnds \/ WorkerEnd
    \/ HangUp

\* Every thread of the pool that can take a step eventually takes it, and a
\* handler returns once its peer is gone; nothing obliges a client to
\* connect or to hang up.
ConnectionFairness ==
    /\ WF_vars(EnqueueNotify)
    /\ \A w \in Workers :
        WF_vars((\/ worker_lock(w) \/ worker_wake(w) \/ worker_begin(w)
                 \/ handle_client_ends(w, {c \in Connections : peer_gone[c]})
                 \/ worker_end(w)) /\ UNCHANGED <<cacheVars, schedVars, serverVars, processVars>>)

\* The pool of the server running one handle_client per accepted
\* connection.
ConnectionSpec == PoolInitial /\ [][ConnectionNext]_vars /\ ConnectionFairness

Accept ==
    /\ accepts < Len(Announced)
    /\ \E h \in Handles, name \in {Announced[accepts + 1], ""} : accept(h, name)
    /\ UNCHANGED <<cacheVars, poolVars, schedVars, processVars>>

ActiveThreads == active_threads /\ UNCHANGED <<cacheVars, poolVars, schedVars, processVars>>

Register == (\E h \in Handles : register(h)) /\ UNCHANGED <<cacheVars, poolVars, schedVars, processVars>>

Join == (\E h \in Handles : join(h)) /\ UNCHANGED <<cacheVars, poolVars, processVars>>

BcLock == (\E h \in Handles : bc_lock(h)) /\ UNCHANGED <<cacheVars, poolVars, schedVars, processVars>>

BcFlag == (\E h \in Handles : bc_flag(h)) /\ UNCHANGED <<cacheVars, poolVars, schedVars, processVars>>

BcInsert == (\E h \in Handles : bc_insert(h)) /\ UNCHANGED <<poolVars, schedVars, processVars>>

RecvFrame ==
    /\ \E h \in Handles, frame \in Frames : recv_frame(h, frame)
    /\ UNCHANGED <<poolVars, schedVars, processVars>>

Received == (\E h \in Handles : received(h)) /\ UNCHANGED <<poolVars, schedVars, processVars>>

TextRecent == (\E h \in Handles : text_recent(h)) /\ UNCHANGED <<poolVars, schedVars, processVars>>

UpdateMetrics ==
    (\E h \in Handles : update_metrics(h)) /\ UNCHANGED <<cacheVars, poolVars, schedVars, processVars>>

UmClients ==
    /\ \E h \in Handles, outcome \in PageFaultOutcomes : um_clients(h, outcome)
    /\ UNCHANGED <<cacheVars, poolVars, schedVars, processVars>>

StatsFormat ==
    (\E h \in Handles : stats_format(h)) /\ UNCHANGED <<cacheVars, poolVars, schedVars, processVars>>

StatsSend == (\E h \in Handles : stats_send(h)) /\ UNCHANGED <<cacheVars, poolVars, schedVars, processVars>>

PrintStatistics ==
    (\E h \in Handles : print_statistics(h)) /\ UNCHANGED <<cacheVars, poolVars, schedVars, processVars>>

Disconnect ==
    (\E h \in Handles : disconnect(h)) /\ UNCHANGED <<cacheVars, poolVars, schedVars, processVars>>

RecvEnd == (\E h \in Handles : recv_end(h)) /\ UNCHANGED <<cacheVars, poolVars, processVars>>

RecvShort == (\E h \in Handles : recv_short(h)) /\ UNCHANGED <<cacheVars, poolVars, processVars>>

Cleanup == (\E h \in Handles : cleanup(h)) /\ UNCHANGED <<cacheVars, poolVars, schedVars, processVars>>

Tick == tick /\ UNCHANGED <<poolVars, schedVars, processVars>>

\* The server: the cache of CACHE_SIZE slots, the empty registry, and its
\* handlers, each started by an accept.
ServerInitial == ServerCacheInit /\ PoolInit /\ ServerInit

ServerNext ==
    \/ Accept \/ ActiveThreads \/ Register \/ Join
    \/ BcLock \/ BcFlag \/ BcInsert
    \/ RecvFrame \/ Received \/ TextRecent
    \/ UpdateMetrics \/ UmClients
    \/ StatsFormat \/ StatsSend \/ PrintStatistics
    \/ Disconnect \/ RecvEnd \/ RecvShort \/ Cleanup
    \/ Tick

ServerSpec == ServerInitial /\ [][ServerNext]_vars

\* The server with its shutdown: the accept loop and the receive loops run
\* while server_running is set; the threads that are past the test of the
\* flag go on as before.
ShutdownNext ==
    \/ server_running /\ (Accept \/ RecvFrame \/ RecvShort)
    \/ ActiveThreads \/ Register \/ Join
    \/ BcLock \/ BcFlag \/ BcInsert
    \/ Received \/ TextRecent
    \/ UpdateMetrics \/ UmClients
    \/ StatsFormat \/ StatsSend \/ PrintStatistics
    \/ Disconnect \/ RecvEnd \/ Cleanup
    \/ Tick
    \/ signal_handler /\ UNCHANGED <<cacheVars, poolVars, schedVars, readers>>
    \/ /\ \E h \in Handles : loop_exit(h)
       /\ UNCHANGED <<cacheVars, poolVars, processVars>>
    \/ cleanup_server /\ UNCHANGED <<cacheVars, poolVars, schedVars, processVars>>
    \/ final_statistics /\ UNCHANGED <<cacheVars, poolVars, schedVars, processVars>>
    \/ join_workers /\ UNCHANGED <<cacheVars, poolVars, schedVars, processVars>>

ShutdownSpec == ServerInitial /\ [][ShutdownNext]_vars

RegistryRegister ==
    /\ \E fd \in Handles, k \in DOMAIN Announced :
          register_block(fd, Announced[k])
    /\ UNCHANGED <<cacheVars, poolVars, schedVars, processVars>>

RegistryFlag ==
    (\E fd \in Handles : flag_block(fd)) /\ UNCHANGED <<cacheVars, poolVars, schedVars, processVars>>

RegistryCleanup ==
    (\E fd \in Handles : cleanup_block(fd)) /\ UNCHANGED <<cacheVars, poolVars, schedVars, processVars>>

RegistryNext == RegistryRegister \/ RegistryFlag \/ RegistryCleanup

\* The registry and the active-client counter under the three blocks of
\* server.cpp that write them, each run on any descriptor.
RegistrySpec == ServerInitial /\ [][RegistryNext]_vars

AddClient ==
    /\ \E fd \in Handles, k \in {1, 2} : add_client(fd, Announced[k])
    /\ UNCHANGED <<cacheVars, poolVars, serverVars, processVars>>

RemoveClient ==
    (\E fd \in Handles : remove_client(fd)) /\ UNCHANGED <<cacheVars, poolVars, serverVars, processVars>>

GetNextClient ==
    /\ Len(selected) < MaxCalls
    /\ \E t \in Times : t >= now /\ get_next_client(t) /\ now' = t
    /\ UNCHANGED <<capacity, cache, size, index_map, hits, misses, call,
                   lookups>>
    /\ UNCHANGED <<poolVars, serverVars, processVars>>

SchedulerNext == AddClient \/ RemoveClient \/ GetNextClient

\* The scheduler under any calls of its three operations.
SchedulerSpec == ServerInitial /\ [][SchedulerNext]_vars

(***************************************************************************)
(* Properties of the MessageCache, checked under Spec.                     *)
(***************************************************************************)

\* The entry the eviction policy names: among the valid slots the one with
\* the smallest last_access, the lowest slot index winning ties.
LruVictim(c, sz) ==
    CHOOSE i \in 0..(sz - 1) :
        /\ c[i].valid
        /\ \A j \in 0..(sz - 1) :
              c[j].valid =>
                  \/ c[i].last_access < c[j].last_access
                  \/ (c[i].last_access = c[j].last_access /\ i <= j)

\* A step that was an insert of a new fingerprint into a full cache.
EvictingInsert == call'.op = "insert" /\ call'.ret /\ size = capacity

\* C1: whatever sequence of insert, lookup, update_access and clear is made,
\* size stays between 0 and capacity, and an insert of a new fingerprint into
\* a full cache leaves size equal to capacity.
C1_SizeWithinCapacity ==
    /\ [](size >= 0 /\ size <= capacity)
    /\ [][EvictingInsert => size' = capacity]_vars

C1_Witness ==
    /\ call.op = "insert" /\ call.ret /\ call.evicted # ""
    /\ size = capacity

\* C2: an insert of a new fingerprint into a full cache evicts exactly one
\* entry, the valid slot with the smallest last_access (lowest index on a
\* tie); that fingerprint is no longer found and every other entry is found
\* with the same slot contents as before.
C2_EvictsLeastRecentlyUsed ==
    [][EvictingInsert =>
        LET v == LruVictim(cache, size)
            gone == cache[v].message_id
        IN /\ call'.evicted = gone
           /\ gone \in DOMAIN index_map
           /\ ~found_in(index_map', cache', size', gone)
           /\ found_in(index_map', cache', size', call'.id)
           /\ \A id \in (DOMAIN index_map) \ {gone} :
                 /\ found_in(index_map', cache', size', id)
                 /\ cache'[index_map'[id]] = cache[index_map[id]]
           /\ Cardinality(DOMAIN index_map') = Cardinality(DOMAIN index_map)
    ]_vars

C2_Witness ==
    /\ call.op = "insert" /\ call.ret /\ call.evicted # ""
    /\ capacity >= 2
    /\ index_map[call.id] > 0
    /\ ~found(call.evicted)

\* C3: an insert whose (sender, timestamp) is already stored in a live entry
\* returns false and changes nothing: size, hits, misses, every slot and the
\* index are as before, also when the content differs.
C3_DuplicateInsertIsNoOp ==
    [][(/\ call'.op = "insert"
        /\ \E i \in 0..(size - 1) :
              /\ cache[i].valid
              /\ cache[i].sender = call'.sender
              /\ cache[i].timestamp = call'.timestamp)
       => /\ call'.ret = FALSE
          /\ UNCHANGED <<capacity, cache, size, index_map, hits, misses>>
    ]_vars

C3_Witness ==
    /\ call.op = "insert" /\ ~call.ret
    /\ found(call.id)
    /\ cache[index_map[call.id]].content # call.content

\* C4: a lookup, hit or miss, changes no slot's last_access or access_count
\* and leaves the next eviction victim the same; a live entry's last_access
\* changes only in an update_access call.
C4_LookupDoesNotRefresh ==
    [][/\ call'.op = "lookup" =>
            /\ \A i \in DOMAIN cache :
                  /\ cache'[i].last_access = cache[i].last_access
                  /\ cache'[i].access_count = cache[i].access_count
            /\ size' = size
            /\ size > 0 => LruVictim(cache', size') = LruVictim(cache, size)
       /\ \A i \in DOMAIN cache :
             (/\ cache[i].valid /\ cache'[i].valid
              /\ cache'[i].message_id = cache[i].message_id
              /\ cache'[i].last_access # cache[i].last_access)
             => call'.op = "update_access"
    ]_vars

C4_Witness ==
    /\ call.op = "lookup" /\ call.ret
    /\ size = capacity
    /\ cache[index_map[call.id]].last_access < now

\* C5: in a full cache of capacity at least 2, the entry update_access has
\* just refreshed is not the one the next insert of a new fingerprint evicts.
C5_RefreshedEntrySurvives ==
    [][(/\ call.op = "update_access" /\ call.ret
        /\ capacity >= 2
        /\ EvictingInsert)
       => call'.evicted # call.id
    ]_vars

\* C6: a lookup of a fingerprint with a mapping returns the stored content
\* and adds one to hits only; any other lookup returns not-found and adds one
\* to misses only; hits + misses is the number of lookups since construction
\* or the last clear.
C6_LookupCountsHitOrMiss ==
    /\ [](hits + misses = lookups)
    /\ [][call'.op = "lookup" =>
            IF call'.id \in DOMAIN index_map
            THEN /\ call'.ret
                 /\ call'.content = cache[index_map[call'.id]].content
                 /\ hits' = hits + 1
                 /\ misses' = misses
            ELSE /\ ~call'.ret
                 /\ hits' = hits
                 /\ misses' = misses + 1
       ]_vars

C6_Witness ==
    /\ call.op = "lookup"
    /\ hits >= 1 /\ misses >= 1

\* The double x, of value x.m * 2^x.e with x.e <= 0, against the natural n:
\* x * t and n scaled to the common unit 2^x.e.
scaled_left(x, t) == mul_small(x.m, t)

scaled_right(x, n) == shift(nat_bits(n), 0 - x.e)

\* x * t = n, exactly.
ExactlyEqual(x, t, n) == x.e <= 0 /\ scaled_left(x, t) = scaled_right(x, n)

\* |x * t - n| <= n * 2^(-51): equal up to the rounding of one division and
\* one multiplication.
EqualUpToRounding(x, t, n) ==
    /\ x.e <= 0
    /\ leq(shift(distance(scaled_left(x, t), scaled_right(x, n)), 51),
           scaled_right(x, n))

\* 0 <= x <= 100
IsPercentage(x) == x.e <= 0 /\ leq(x.m, scaled_right(x, 100))

\* C7 as stated: hit_rate * (hits + misses) = hits * 100, 0 <= hit_rate <=
\* 100, and hit_rate is 0 when there has been no lookup.
C7_HitRateExact ==
    call.op = "get_hit_rate" =>
        /\ ExactlyEqual(call.ret, hits + misses, hits * 100)
        /\ IsPercentage(call.ret)
        /\ hits + misses = 0 => call.ret.m = << >>

\* C7, amended: hit_rate * (hits + misses) equals hits * 100 up to a relative
\* rounding error of 2^(-51), 0 <= hit_rate <= 100, and hit_rate is exactly 0
\* when there has been no lookup since construction or the last clear.
C7_HitRateRounded ==
    call.op = "get_hit_rate" =>
        /\ EqualUpToRounding(call.ret, hits + misses, hits * 100)
        /\ IsPercentage(call.ret)
        /\ hits + misses = 0 => call.ret.m = << >>

C7_Witness ==
    /\ call.op = "get_hit_rate"
    /\ hits = 1 /\ misses = 2
    /\ ~ExactlyEqual(call.ret, 3, 100)

\* C8: clear leaves size, hits and misses at 0, no slot valid and the index
\* empty, as after construction with the same capacity; right after it every
\* lookup misses and every insert succeeds.
C8_ClearResets ==
    [][/\ call'.op = "clear" =>
            /\ size' = 0 /\ hits' = 0 /\ misses' = 0
            /\ capacity' = capacity
            /\ index_map' = << >>
            /\ \A i \in DOMAIN cache' : ~cache'[i].valid
            /\ \A id \in MessageIds : ~found_in(index_map', cache', size', id)
       /\ (call.op = "clear" /\ call'.op = "lookup") => ~call'.ret
       /\ (call.op = "clear" /\ call'.op = "insert") => call'.ret
    ]_vars

C8_Witness ==
    /\ call.op = "insert" /\ call.ret
    /\ size = 1
    /\ \E i \in DOMAIN cache :
          i >= 1 /\ cache[i].timestamp = call.timestamp /\ ~cache[i].valid

(***************************************************************************)
(* Properties of the ThreadPool, checked under PoolSpec.                   *)
(***************************************************************************)

\* The tasks waiting in the queue.
queued == {tasks[k] : k \in 1..Len(tasks)}

\* C9: every task enqueue accepted is executed exactly once: no task runs
\* twice or without having been accepted, a worker returns only when stop is
\* set and the queue is empty, when the destructor has joined every worker
\* each accepted task has run once, and every accepted task eventually runs.
C9_AcceptedTasksRunOnce ==
    /\ [](\A t \in TaskIds :
            /\ runs[t] <= 1
            /\ runs[t] = 1 => t \in accepted)
    /\ [][\A w \in Workers :
            (wpc[w] # "exited" /\ wpc'[w] = "exited")
                => (stop /\ tasks = << >>)]_vars
    /\ [](dpc = "done" => \A t \in accepted : runs[t] = 1)
    /\ \A t \in TaskIds : (t \in accepted) ~> (runs[t] = 1)

C9_Witness ==
    /\ dpc = "done"
    /\ queuedAtStop > 0
    /\ \A t \in accepted : runs[t] = 1

C11_NullTaskRefused ==
    [][(issued' = issued + 1 /\ enq'.task = NullTask)
          => /\ enq'.ret = "InvalidTask"
             /\ tasks' = tasks
             /\ cpc' = "idle"
             /\ notified' = notified
             /\ wpc' = wpc
             /\ accepted' = accepted]_vars

C11_Witness ==
    /\ enq.task = NullTask
    /\ enq.ret = "InvalidTask"
    /\ waiters # {}
    /\ tasks = << >>

\* C12: a task that throws never ends its worker: the error lands in a
\* handler of worker_thread, the step after the handler takes the worker
\* back to the top of its loop with active_count one lower, and no worker
\* has returned while stop is unset, so the live workers number pool_size
\* until shutdown; a worker in a handler always comes back to the top of
\* its loop, where it takes the next task.
C12_ThrowingTaskKeepsWorker ==
    /\ [][\A w \in Workers :
            (wpc[w] = "running" /\ wpc'[w] # "running")
                => wpc'[w] \in {"ran", "caught"}]_vars
    /\ [][\A w \in Workers :
            (wpc[w] = "caught" /\ wpc'[w] # "caught")
                => /\ wpc'[w] = "loop"
                   /\ active_count' = active_count - 1]_vars
    /\ [](~stop => \A w \in Workers : wpc[w] # "exited")
    /\ \A w \in Workers : (wpc[w] = "caught") ~> (wpc[w] = "loop")

C12_Witness ==
    \E w \in Workers :
        /\ wpc[w] = "caught"
        /\ active_count = 1
        /\ tasks # << >>
        /\ ~stop

(***************************************************************************)
(* Properties of the server, checked under ServerSpec and RegistrySpec.    *)
(***************************************************************************)

\* A step in which handler h's call of broadcast_message finishes its loop
\* over clients.
loop_ends(h) == hpc[h] = "bc_lock" /\ hpc'[h] \in {"bc_flag", "bc_insert"}

\* The registered connections that are active and whose handle differs
\* from the handle h's broadcast excludes.
active_peers(h) ==
    {fd \in DOMAIN clients : clients[fd].active /\ fd # sender_socket(h)}

\* The descriptors of a list of delivery attempts.
fds_of(attempts_made) == {attempts_made[k].fd : k \in DOMAIN attempts_made}

\* C13: when the loop of a broadcast ends it has made one delivery attempt
\* to each registered connection that is active and is not the excluded
\* handle, and none to any other descriptor; each attempt that worked has
\* put one copy of the message on that connection, and nothing else was
\* sent, so the sender has not received its own message.
C13_OneAttemptPerActivePeer ==
    [][\A h \in Handles :
          loop_ends(h) =>
              /\ fds_of(attempted'[h]) = active_peers(h)
              /\ Len(attempted'[h]) = Cardinality(active_peers(h))
              /\ \A fd \in Handles :
                    inbox'[fd] =
                        IF \E k \in DOMAIN attempted'[h] :
                              attempted'[h][k].fd = fd /\ attempted'[h][k].sent
                        THEN Append(inbox[fd], msg[h])
                        ELSE inbox[fd]
              /\ sender_socket(h) \notin fds_of(attempted'[h])]_vars

\* A join or text broadcast whose loop has ended after attempts, with a
\* registered connection flagged inactive that got none.
C13_Witness ==
    \E h \in Handles :
        /\ hpc[h] = "bc_insert"
        /\ sender_socket(h) = h
        /\ h \in DOMAIN clients
        /\ attempted[h] # << >>
        /\ \E fd \in DOMAIN clients :
              ~clients[fd].active /\ fd \notin fds_of(attempted[h])

\* The attempt of handler h's broadcast on the descriptor fd.
attempt_on(h, fd) ==
    attempted[h][CHOOSE k \in DOMAIN attempted[h] : attempted[h][k].fd = fd]

\* C14: a step that flags a registered connection inactive is the second
\* pass of a broadcast whose send to that very connection failed; every
\* other connection stays active.
C14_OnlyFailingConnectionFlagged ==
    [][\A fd \in DOMAIN clients :
          (fd \in DOMAIN clients' /\ clients[fd].active /\ ~clients'[fd].active)
              => \E h \in Handles :
                    /\ hpc[h] = "bc_flag"
                    /\ Head(failed_sockets[h]) = fd
                    /\ ~attempt_on(h, fd).sent
                    /\ attempt_on(h, fd).conn = conn[fd]]_vars

is_broadcast(m) == m.sender # "SERVER"

\* C16: any two connections that have both received the same two broadcast
\* messages have received them in the same relative order, whatever the
\* interleaving of the handlers that broadcast them.
C16_SameRelativeOrder ==
    \A fd1 \in Handles, fd2 \in Handles :
        \A i \in DOMAIN inbox[fd1], j \in DOMAIN inbox[fd1] :
            \A k \in DOMAIN inbox[fd2], l \in DOMAIN inbox[fd2] :
                (/\ i < j
                 /\ is_broadcast(inbox[fd1][i])
                 /\ is_broadcast(inbox[fd1][j])
                 /\ inbox[fd2][k] = inbox[fd1][i]
                 /\ inbox[fd2][l] = inbox[fd1][j])
                    => k < l

\* Two handlers are inside broadcast_message at the same time, past their
\* loops, and two other connections have received both their messages.
C16_Witness ==
    \E s1 \in Handles, s2 \in Handles, r1 \in Handles, r2 \in Handles :
        /\ s1 # s2 /\ r1 # r2
        /\ hpc[s1] = "bc_insert" /\ hpc[s2] = "bc_insert"
        /\ \A r \in {r1, r2} :
              \E i \in DOMAIN inbox[r], j \in DOMAIN inbox[r] :
                  inbox[r][i] = msg[s1] /\ inbox[r][j] = msg[s2]

\* C17: when broadcast_message returns from a text message, a lookup of the
\* fingerprint of its sender and its timestamp finds that message's
\* payload, also when the sender's join or another text of the sender has
\* the same timestamp.
C17_BroadcastTextIsCached ==
    [][\A h \in Handles :
          (hpc[h] = "bc_insert" /\ hpc'[h] = "text_recent") =>
              LET id == generate_message_id(msg[h].sender, msg[h].timestamp)
              IN /\ found_in(index_map', cache', size', id)
                 /\ cache'[index_map'[id]].content = msg[h].payload]_vars

\* Two clients have connected and registered, one text message has been
\* broadcast, nobody has left, and no handler but h is doing anything.
two_clients_one_text(h) ==
    /\ accepts = 2
    /\ texts = 1
    /\ Cardinality(DOMAIN clients) = 2
    /\ \A fd \in DOMAIN clients : fd # h => hpc[fd] = "recv"

\* C18: the statistics formatted for a status request after two clients
\* connected and one of them sent a single text message show a cache of
\* one message and two active clients.
C18_StatsAfterOneText ==
    [][\A h \in Handles :
          (/\ hpc[h] = "stats_format"
           /\ hpc'[h] = "stats_send"
           /\ two_clients_one_text(h))
              => /\ msg'[h].stats.cache_size = 1
                 /\ msg'[h].stats.active_clients = 2]_vars

\* Handler h, inside update_metrics for a status request, waits for
\* metrics_mutex, which it holds itself.
waits_for_own_mutex(h) == hpc[h] = "relock" /\ metrics_mutex = h

\* Handler h, inside update_metrics for a status request, holds
\* metrics_mutex and waits for clients_mutex, whose holder waits for
\* metrics_mutex.
waits_in_cycle(h) ==
    /\ hpc[h] = "um_clients"
    /\ metrics_mutex = h
    /\ clients_mutex # Nobody
    /\ hpc[clients_mutex] \in {"register_metrics", "bc_count", "cleanup_metrics"}

\* C19: a handler answering a status request is never in a position from
\* which it cannot go on: it neither waits for a mutex it holds itself nor
\* for one whose holder is waiting for it.
C19_StatusHandlerNeverStuck ==
    \A h \in Handles : ~waits_for_own_mutex(h) /\ ~waits_in_cycle(h)

\* The positions of a handler inside the MSG_STATUS case.
status_positions ==
    {"update_metrics", "um_clients", "relock", "stats_format", "stats_send",
     "print_statistics"}

\* C20: the steps a handler takes for a status request send nothing on any
\* connection but its own, send on its own only the statistics reply it has
\* formatted (sender "SERVER", type MSG_TEXT), once, never enter
\* broadcast_message and leave the MessageCache as it is.
C20_StatsReplyIsUnicast ==
    [][\A h \in Handles :
          (hpc[h] \in status_positions /\ hpc'[h] # hpc[h]) =>
              /\ \A fd \in Handles \ {h} : inbox'[fd] = inbox[fd]
              /\ \/ inbox'[h] = inbox[h]
                 \/ /\ hpc[h] = "stats_send"
                    /\ inbox'[h] = Append(inbox[h], msg[h])
                    /\ msg[h].sender = "SERVER"
                    /\ msg[h].type = "MSG_TEXT"
              /\ hpc'[h] \in status_positions \cup {"recv"}
              /\ <<cache, size, index_map>>' = <<cache, size, index_map>>]_vars

\* A handler is back in its receive loop with the statistics reply on its
\* connection, and another registered, active connection has none.
C20_Witness ==
    \E h \in Handles, fd \in DOMAIN clients :
        /\ fd # h
        /\ clients[fd].active
        /\ hpc[h] = "recv"
        /\ hpc[fd] = "recv"
        /\ \E k \in DOMAIN inbox[h] : inbox[h][k].sender = "SERVER"
        /\ \A k \in DOMAIN inbox[fd] : inbox[fd][k].sender # "SERVER"

(***************************************************************************)
(* Properties of connection handling, the scheduler and the index of  *)
(* the cache.                                                              *)
(***************************************************************************)

\* Connection h is served: its handler is in the receive loop, its peer has
\* neither closed nor reset it, and it is in the registry and the rotation.
served(h) ==
    /\ hpc[h] = "recv"
    /\ ~peer_gone[h]
    /\ h \in DOMAIN clients
    /\ find_client(ring, h) # 0

\* C21: whatever a connection that is served receives next, a frame of the
\* wrong size included, its handler does not leave the receive loop for the
\* cleanup: the connection stays in the registry and in the rotation and no
\* leave notification is built for it.
C21_WrongSizeFrameDiscarded ==
    [][\A h \in Handles :
          served(h) =>
              /\ hpc'[h] # "cleanup"
              /\ h \in DOMAIN clients'
              /\ find_client(ring', h) # 0
              /\ msg'[h].type # "MSG_LEAVE"]_vars

\* The handler of h reads the frame 'frame' from its connection and takes it
\* to the switch, or takes there the frame of that type it has read.
handles(h, frame) ==
    \/ recv_frame(h, frame)
    \/ hpc[h] = "received" /\ msg[h].type = frame.type /\ received(h)

\* C22: a frame of the right size whose type is neither MSG_TEXT nor
\* MSG_STATUS is dropped: handling it sends nothing on any connection,
\* leaves the MessageCache, the registry and the rotation as they are and
\* takes the handler back to the receive loop (or to the wait for a mutex on
\* the way to the switch), never into broadcast_message.
C22_OtherKindsDiscarded ==
    [][\A h \in Handles, frame \in Frames :
          (frame.type \notin {"MSG_TEXT", "MSG_STATUS"} /\ handles(h, frame))
              => /\ inbox' = inbox
                 /\ <<cache, size, index_map>>' = <<cache, size, index_map>>
                 /\ clients' = clients
                 /\ ring' = ring
                 /\ hpc'[h] \in {"recv", "received", "touch"}
                 /\ hpc'[h] = "recv" => msg'[h] = NoMessage]_vars

\* The only connection accepted so far has had a frame counted, its peer is
\* there, and the frame was neither broadcast as a text nor answered as a
\* status request: it was of another kind, and the handler is back in the
\* receive loop, registered.
C22_Witness ==
    \E h \in Handles :
        /\ accepts = 1
        /\ hpc[h] = "recv"
        /\ ~peer_gone[h]
        /\ h \in DOMAIN clients
        /\ metrics.messages_received >= 1
        /\ texts = 0
        /\ inbox[h] = << >>
        /\ size = 1

\* A step of the handler of h between the end of its receive loop and
\* close(client_socket): scheduler.remove_client, the cleanup block, and the
\* steps of broadcast_message for the leave notification.
ending(h) ==
    \/ hpc[h] = "recv" /\ hpc'[h] = "cleanup"
    \/ hpc[h] = "cleanup" /\ hpc'[h] # "cleanup"
    \/ /\ msg[h].type = "MSG_LEAVE"
       /\ hpc'[h] # hpc[h] \/ failed_sockets'[h] # failed_sockets[h]

\* The node of the rotation for the descriptor fd, << >> when it has none.
node_of(r, fd) ==
    IF find_client(r, fd) = 0 THEN << >> ELSE <<r[find_client(r, fd)]>>

\* The step leaves the rotation node and the handler of every connection
\* but h where they are.
others_scheduled(h) ==
    \A fd \in Handles \ {h} :
        /\ node_of(ring', fd) = node_of(ring, fd)
        /\ hpc'[fd] = hpc[fd]

\* The step has taken h out of the registry and the rotation by the time the
\* leave notification is built, the notification is tried once on every
\* connection the registry has as active, and the socket is closed only
\* after that broadcast.
deregistered_then_left(h) ==
    /\ msg'[h].type = "MSG_LEAVE" =>
          h \notin DOMAIN clients' /\ find_client(ring', h) = 0
    /\ (msg[h].type = "MSG_LEAVE" /\ loop_ends(h)) =>
          /\ fds_of(attempted'[h]) =
                {fd \in DOMAIN clients : clients[fd].active}
          /\ Len(attempted'[h]) = Cardinality(fds_of(attempted'[h]))
          /\ \A k \in DOMAIN attempted'[h] :
                attempted'[h][k].sent =>
                    inbox'[attempted'[h][k].fd] =
                        Append(inbox[attempted'[h][k].fd], msg[h])
    /\ hpc'[h] = "closed" =>
          /\ msg[h].type = "MSG_LEAVE"
          /\ hpc[h] = "bc_insert"
          /\ h \notin DOMAIN clients

\* C23 as claimed: when the task of a connection ends, the connection is
\* taken out of the registry and the rotation, a leave notification is
\* broadcast to the active connections that remain and the socket is
\* closed, and no step of this changes the registry record, the rotation
\* node or the activity of another connection.
C23_OthersUntouched ==
    [][\A h \in Handles :
          ending(h) =>
              /\ deregistered_then_left(h)
              /\ others_scheduled(h)
              /\ \A fd \in DOMAIN clients \ {h} :
                    fd \in DOMAIN clients' /\ clients'[fd] = clients[fd]]_vars

\* C23 as amended: the same, except that the registry record under a
\* descriptor on which the send of the leave notification failed gets
\* active = false.
C23_OthersUntouchedButFailedSends ==
    [][\A h \in Handles :
          ending(h) =>
              /\ deregistered_then_left(h)
              /\ others_scheduled(h)
              /\ \A fd \in DOMAIN clients \ {h} :
                    /\ fd \in DOMAIN clients'
                    /\ \/ clients'[fd] = clients[fd]
                       \/ /\ hpc[h] = "bc_flag"
                          /\ fd = Head(failed_sockets[h])
                          /\ clients'[fd] =
                                [clients[fd] EXCEPT !.active = FALSE]]_vars

\* A connection has been closed after its leave notification, which is on
\* the connection of a client that is still registered, active and in the
\* rotation.
C23_Witness ==
    \E h \in Handles, fd \in DOMAIN clients :
        /\ fd # h
        /\ hpc[h] = "closed"
        /\ conn[h] # 0
        /\ h \notin DOMAIN clients
        /\ find_client(ring, h) = 0
        /\ clients[fd].active
        /\ find_client(ring, fd) # 0
        /\ \E k \in DOMAIN inbox[fd] :
              /\ inbox[fd][k].type = "MSG_LEAVE"
              /\ inbox[fd][k].id = <<conn[h], 0 - 1>>

\* Where a notification or a text stands in the life of its connection.
rank(m) ==
    IF m.type = "MSG_JOIN" THEN 0 ELSE IF m.type = "MSG_LEAVE" THEN 2 ELSE 1

\* On every connection: nothing that the connection's own handler has
\* broadcast, and of each other connection at most one join notification,
\* before any of its texts, and at most one leave notification, after them.
notifications_in_order ==
    \A fd \in Handles :
        /\ \A k \in DOMAIN inbox[fd] :
              is_broadcast(inbox[fd][k]) => inbox[fd][k].id[1] # conn[fd]
        /\ \A i, j \in DOMAIN inbox[fd] :
              (/\ i < j
               /\ is_broadcast(inbox[fd][i])
               /\ is_broadcast(inbox[fd][j])
               /\ inbox[fd][i].id[1] = inbox[fd][j].id[1])
                  => /\ rank(inbox[fd][i]) <= rank(inbox[fd][j])
                     /\ rank(inbox[fd][i]) = rank(inbox[fd][j])
                           => rank(inbox[fd][i]) = 1

\* Handler h calls broadcast_message in this step.
broadcasts(h) == hpc'[h] = "bc_lock" /\ hpc[h] # "bc_lock"

\* C24: a handler calls broadcast_message first for its join notification,
\* with its connection in the registry and the rotation, and the join is
\* tried on every other active connection and not on its own; it enters the
\* receive loop only from the end of that broadcast, and broadcasts texts
\* only from the loop; it broadcasts its leave notification only from the
\* cleanup, with its connection out of the registry and the rotation, and
\* closes the socket next; and on every connection the notifications of
\* each other connection stand in that order, once each, none of them the
\* connection's own.
C24_JoinFirstLeaveLast ==
    [][/\ notifications_in_order'
       /\ \A h \in Handles :
             /\ (broadcasts(h) /\ hpc[h] = "add_client") =>
                   /\ msg'[h].type = "MSG_JOIN"
                   /\ h \in DOMAIN clients'
                   /\ find_client(ring', h) # 0
             /\ (msg[h].type = "MSG_JOIN" /\ loop_ends(h)) =>
                   /\ fds_of(attempted'[h]) = active_peers(h)
                   /\ h \notin fds_of(attempted'[h])
             /\ (hpc'[h] = "recv" /\ hpc[h] \in {"add_client", "bc_insert"}) =>
                   /\ hpc[h] = "bc_insert"
                   /\ msg[h].type = "MSG_JOIN"
             /\ (broadcasts(h) /\ msg'[h].type = "MSG_JOIN") =>
                   hpc[h] = "add_client"
             /\ (broadcasts(h) /\ msg'[h].type = "MSG_TEXT") =>
                   hpc[h] \in {"recv", "received"}
             /\ (broadcasts(h) /\ msg'[h].type = "MSG_LEAVE") =>
                   /\ hpc[h] \in {"recv", "cleanup"}
                   /\ h \notin DOMAIN clients'
                   /\ find_client(ring', h) = 0
             /\ (msg[h].type = "MSG_LEAVE" /\ hpc[h] = "bc_insert"
                    /\ hpc'[h] # hpc[h]) => hpc'[h] = "closed"
             /\ (hpc[h] = "closed" /\ hpc'[h] # "closed") =>
                   hpc'[h] = "register"
             /\ (hpc'[h] = "add_client" /\ hpc[h] # "add_client") =>
                   hpc[h] = "register"]_vars

\* A connection has the join notification, a text and the leave
\* notification of another connection, in this order, and the handler of
\* that other connection has closed its socket.
C24_Witness ==
    \E fd, h \in Handles :
        /\ fd # h
        /\ hpc[h] = "closed"
        /\ hpc[fd] = "recv"
        /\ \E i, j, k \in DOMAIN inbox[fd] :
              /\ i < j
              /\ j < k
              /\ inbox[fd][i].type = "MSG_JOIN"
              /\ inbox[fd][j].type = "MSG_TEXT"
              /\ inbox[fd][k].type = "MSG_LEAVE"
              /\ inbox[fd][i].id[1] = conn[h]
              /\ inbox[fd][j].id[1] = conn[h]
              /\ inbox[fd][k].id[1] = conn[h]

\* The positions at which a handler is about to lock clients_mutex, and
\* those at which it is about to lock metrics_mutex.
wants_clients_mutex ==
    {"register", "bc_lock", "bc_flag", "touch", "um_clients", "cleanup"}

wants_metrics_mutex ==
    {"register_metrics", "bc_count", "cleanup_metrics", "received",
     "update_metrics", "relock", "stats_format", "print_statistics"}

\* The thread that holds the mutex handler h is about to lock, Nobody when
\* the mutex is free or h is not about to lock one.
awaited(h) ==
    IF hpc[h] \in wants_clients_mutex THEN clients_mutex
    ELSE IF hpc[h] \in wants_metrics_mutex THEN metrics_mutex
    ELSE Nobody

\* C25: no thread of the server waits for a mutex that it holds itself or
\* whose holder is waiting for a mutex too: neither a handler nor the
\* accept loop of main, which locks metrics_mutex after each enqueue.
C25_NoThreadWaitsForEver ==
    /\ \A h \in Handles :
          awaited(h) # Nobody => awaited(h) # h /\ awaited(awaited(h)) = Nobody
    /\ (mpc = "active_threads" /\ metrics_mutex # Nobody) =>
          awaited(metrics_mutex) = Nobody

\* The task of connection c is in the queue of the pool.
waiting_for_worker(c) == \E k \in DOMAIN tasks : tasks[k] = c

\* handle_client is running for connection c on a worker of the pool.
handled(c) == \E w \in Workers : wtask[w] = c /\ wpc[w] = "running"

\* C26: with one connection more than the pool has workers, every
\* connection whose task main has put in the queue is eventually handled by
\* a worker, whether or not a client that came before it hangs up.
C26_EveryConnectionHandled ==
    \A c \in Connections : waiting_for_worker(c) ~> handled(c)

\* The client at place k of the rotation, the places being counted on round
\* the ring: ring lists the nodes from head, the oldest first.
in_rotation(k) == ring[((k - 1) % Len(ring)) + 1].socket_fd

\* The calls of get_next_client the claim is about: the first N + 1 made in
\* a row on a ring of N clients.
in_a_row == {k \in DOMAIN selected : k <= Len(ring) + 1}

\* C27 as claimed: on a ring of N clients, whatever calls came before, the
\* k-th of N consecutive calls of get_next_client returns the k-th client in
\* insertion order, and call N + 1 the first client again.
C27_InsertionOrder ==
    ring # << >> => \A k \in in_a_row : selected[k] = in_rotation(k)

\* C27 as amended: the N calls return each client once, in insertion order
\* taken round the ring from the client the cursor was on, call N + 1
\* returns what call 1 returned, and the cursor is on the client after the
\* one returned last.
C27_CyclicOrderFromCursor ==
    (ring # << >> /\ selected # << >>) =>
        LET p == find_client(ring, selected[1]) IN
        /\ p # 0
        /\ \A k \in in_a_row : selected[k] = in_rotation(p + k - 1)
        /\ Len(selected) >= Len(ring) =>
              {selected[k] : k \in 1..Len(ring)} =
                  {ring[i].socket_fd : i \in DOMAIN ring}
        /\ Len(selected) > Len(ring) => selected[Len(ring) + 1] = selected[1]
        /\ current = in_rotation(p + Len(selected))

\* Four calls in a row on a ring of three clients, the first of which did
\* not return the head.
C27_Witness ==
    /\ Len(ring) = 3
    /\ Len(selected) = 4
    /\ selected[1] # ring[1].socket_fd
    /\ Cardinality({ring[i].socket_fd : i \in DOMAIN ring}) = 3

\* No descriptor has two nodes in the rotation, and client_count is the
\* number of nodes.
one_node_each ==
    /\ \A i, j \in DOMAIN ring :
          ring[i].socket_fd = ring[j].socket_fd => i = j
    /\ client_count = Len(ring)

\* C28: a call of add_client for a descriptor that has a node leaves the
\* nodes, with the user id stored for that descriptor, the cursor and
\* client_count as they were; so no descriptor ever has two nodes.
C28_DuplicateAddIsNoOp ==
    [][/\ \A fd \in Handles :
             (/\ sched_call' = [op |-> "add_client", fd |-> fd]
              /\ find_client(ring, fd) # 0)
                 => /\ ring' = ring
                    /\ current' = current
                    /\ client_count' = client_count
       /\ one_node_each']_vars

\* The last call was add_client for a descriptor whose node is not the last
\* of the ring: the node was there before the call, and is there once.
C28_Witness ==
    \E fd \in Handles :
        /\ sched_call = [op |-> "add_client", fd |-> fd]
        /\ find_client(ring, fd) # 0
        /\ find_client(ring, fd) < Len(ring)
        /\ current # fd
        /\ one_node_each

\* The ring without its nodes for the descriptor fd.
without(r, fd) == SelectSeq(r, LAMBDA node : node.socket_fd # fd)

\* C29: remove_client of a descriptor that has no node changes nothing;
\* of one that has a node, it takes that node out and leaves the others in
\* their order, and the cursor, if it was on that node, is moved to the node
\* that came after it round the ring (the new head when the head was
\* removed, no node when it was the only one) and otherwise stays on the
\* client it was on.
C29_RemoveMovesCursorOn ==
    [][\A fd \in Handles :
          sched_call' = [op |-> "remove_client", fd |-> fd] =>
              LET i == find_client(ring, fd) IN
              IF i = 0
              THEN /\ ring' = ring
                   /\ current' = current
                   /\ client_count' = client_count
              ELSE /\ ring' = without(ring, fd)
                   /\ client_count' = client_count - 1
                   /\ current # fd => current' = current
                   /\ (current = fd /\ Len(ring) = 1) => current' = nullptr
                   /\ (current = fd /\ Len(ring) > 1) =>
                         /\ current' = ring[(i % Len(ring)) + 1].socket_fd
                         /\ i = 1 => current' = ring'[1].socket_fd]_vars

\* A node that was not the head has just been removed from a ring that
\* keeps two clients, and the cursor is on the second of them.
C29_Witness ==
    \E fd \in Handles :
        /\ sched_call = [op |-> "remove_client", fd |-> fd]
        /\ find_client(ring, fd) = 0
        /\ Len(ring) = 2
        /\ client_count = 2
        /\ current = ring[2].socket_fd
        /\ fd > ring[1].socket_fd
        /\ fd < ring[2].socket_fd

\* The slots below size that are valid.
valid_slots == {i \in 0..(size - 1) : cache[i].valid}

\* C30: the index and the slots agree: every entry f -> i of index_map
\* points to a slot i below size that is valid and stores the fingerprint
\* f, every valid slot below size has an entry, and no two entries point to
\* the same slot.
C30_IndexMatchesSlots ==
    /\ \A f \in DOMAIN index_map :
          /\ index_map[f] \in valid_slots
          /\ cache[index_map[f]].message_id = f
    /\ \A i \in valid_slots :
          \E f \in DOMAIN index_map : index_map[f] = i
    /\ \A f, g \in DOMAIN index_map :
          index_map[f] = index_map[g] => f = g

\* A full cache of two slots after an insert that evicted an entry: the
\* evicted fingerprint has no index entry and the new one points to the
\* slot it took.
C30_Witness ==
    /\ capacity = 2
    /\ size = 2
    /\ call.op = "insert"
    /\ call.ret
    /\ call.evicted # ""
    /\ call.evicted \notin DOMAIN index_map
    /\ call.id \in DOMAIN index_map
    /\ cache[index_map[call.id]].message_id = call.id

(***************************************************************************)
(* Properties of the registry, the rotation, the locks and shutdown.        *)
(***************************************************************************)

\* The descriptors on which a send of the broadcast handler h is running
\* failed.
failed_in(h) ==
    {attempted[h][k].fd : k \in {j \in DOMAIN attempted[h] : ~attempted[h][j].sent}}

\* C31: when broadcast_message has finished its second pass, which is when
\* it goes on to the insert into the cache, no descriptor on which a send of
\* this call failed is a key of the registry.
C31_FailedHandleRemoved ==
    \A h \in Handles :
        hpc[h] = "bc_insert" => failed_in(h) \cap DOMAIN clients = {}

\* The descriptors met on the way along next from the i-th node, n nodes
\* long.
RECURSIVE walk(_, _, _)
walk(r, i, n) ==
    IF n = 0 THEN << >>
    ELSE <<r[i].socket_fd>> \o walk(r, find_client(r, next_of(r, i)), n - 1)

\* C32: the rotation is well formed: the walk along next from the head
\* meets every node once and is then back at the head, client_count is the
\* number of nodes, and the cursor is nullptr exactly when there is no node
\* and is otherwise on a node of the rotation.
C32_RotationWellFormed ==
    /\ client_count = Len(ring)
    /\ ring # << >> =>
          LET met == walk(ring, 1, Len(ring)) IN
          /\ \A i, j \in DOMAIN met : met[i] = met[j] => i = j
          /\ {met[i] : i \in DOMAIN met} =
                 {ring[i].socket_fd : i \in DOMAIN ring}
          /\ next_of(ring, find_client(ring, met[Len(met)])) =
                 ring[1].socket_fd
    /\ (current = nullptr) <=> (ring = << >>)
    /\ current # nullptr => find_client(ring, current) # 0

\* Three clients are left after a removal and the cursor, moved on by
\* get_next_client earlier, is on the last of them.
C32_Witness ==
    /\ sched_call.op = "remove_client"
    /\ find_client(ring, sched_call.fd) = 0
    /\ Len(ring) = 3
    /\ client_count = 3
    /\ current = ring[3].socket_fd
    /\ \E i \in DOMAIN ring : ring[i].last_scheduled > 0

\* The positions of a handler that has put its connection into the registry
\* and not yet into the rotation, and those of a handler that has taken it
\* out of the rotation and not yet out of the registry.
between_registration == {"register_metrics", "add_client"}

between_cleanup == {"cleanup", "cleanup_metrics"}

\* C33: whenever no handler is between its registration steps or between
\* its cleanup steps, the descriptors of the rotation are the keys of the
\* registry.
C33_RotationMatchesRegistry ==
    (\A h \in Handles : hpc[h] \notin between_registration \cup between_cleanup)
        => {ring[i].socket_fd : i \in DOMAIN ring} = DOMAIN clients

\* Handler h holds clients_mutex and is about to lock metrics_mutex.
clients_then_metrics(h) ==
    /\ clients_mutex = h
    /\ hpc[h] \in {"register_metrics", "bc_count", "cleanup_metrics"}

\* Handler h holds metrics_mutex and is about to lock clients_mutex.
metrics_then_clients(h) == metrics_mutex = h /\ hpc[h] = "um_clients"

\* Handler h can never return: it waits for metrics_mutex, which it holds
\* itself, or it is one of two handlers each of which holds the mutex the
\* other waits for.
never_returns(h) ==
    \/ hpc[h] = "relock" /\ metrics_mutex = h
    \/ \E other \in Handles \ {h} :
          \/ clients_then_metrics(h) /\ metrics_then_clients(other)
          \/ metrics_then_clients(h) /\ clients_then_metrics(other)

\* C34: once server_running is cleared the shutdown can complete: no
\* handler is in a position from which it never returns, which is what the
\* join of the pool, and so the end of main, waits for.
C34_ShutdownCanComplete ==
    ~server_running => \A h \in Handles : ~never_returns(h)

\* C35: a handler that has called send in the broadcast it is running, and
\* has not returned from the loop over the registry, does not hold
\* clients_mutex: the lock is not held from one send to the next.
C35_NoLockAcrossSend ==
    \A h \in Handles : attempted[h] # << >> => clients_mutex # h

\* The number of lookup calls that have returned true.
RECURSIVE returned_true_by(_)
returned_true_by(rs) ==
    IF rs = {} THEN 0
    ELSE LET r == CHOOSE x \in rs : TRUE IN
         readers[r].returned_true + returned_true_by(rs \ {r})

\* C36: when every lookup call of the concurrent readers has returned, hits
\* + misses is the number of lookup calls made and hits is the number of
\* calls that returned true.
C36_NoCountLost ==
    (\A r \in Readers : readers[r].pc = "idle") =>
        /\ hits + misses = lookups
        /\ hits = returned_true_by(Readers)

\* The workers between active_count++ and active_count--: the task has been
\* called and has not ended, or it has ended and the worker is leaving the
\* try block.
executing == {w \in Workers : wpc[w] \in {"running", "ran", "caught"}}

\* The workers that hold no task: at the top of the loop, blocked in
\* condition.wait, or returned from worker_thread.
idle == {w \in Workers : wpc[w] \in {"loop", "waiting", "exited"}}

\* C37: active_count is the number of workers executing a task, so it lies
\* between 0 and the size of the pool, no more tasks than workers run at a
\* time, and it is 0 when every worker is idle or has exited.
C37_ActiveCountIsExecuting ==
    /\ active_count = Cardinality(executing)
    /\ active_count \in 0..NumWorkers
    /\ \A w \in executing : wtask[w] # NullTask
    /\ \A v, w \in executing : wtask[v] = wtask[w] => v = w
    /\ idle = Workers => active_count = 0

\* Every worker is executing a task, one of them a task that has thrown;
\* the pool has been told to stop.
C37_Witness ==
    /\ executing = Workers
    /\ active_count = NumWorkers
    /\ \E w \in Workers : wpc[w] = "caught"
    /\ stop

\* The descriptors on the way from the head.
from_head(r) == [i \in DOMAIN r |-> r[i].socket_fd]

\* C38: a call of add_client or remove_client leaves the clients that stay
\* in the order they had on the way from the head, and a client that is
\* added comes after all the clients that were there: the way from the head
\* is the order in which the clients were added.
C38_AddedOrderKept ==
    [][\/ from_head(ring') = from_head(ring)
       \/ /\ \A i, j \in DOMAIN ring :
                (/\ i < j
                 /\ find_client(ring', ring[i].socket_fd) # 0
                 /\ find_client(ring', ring[j].socket_fd) # 0)
                    => find_client(ring', ring[i].socket_fd) <
                           find_client(ring', ring[j].socket_fd)
          /\ \A k \in DOMAIN ring' :
                find_client(ring, ring'[k].socket_fd) = 0 => k = Len(ring')]_vars

\* A client was added after the removal of an earlier one: the descriptor
\* added last is the smallest and stands last, behind two others that are
\* not in the order of their numbers.
C38_Witness ==
    /\ sched_call.op = "add_client"
    /\ Len(ring) = 3
    /\ ring[3].socket_fd = sched_call.fd
    /\ ring[3].socket_fd = 1
    /\ ring[1].socket_fd > ring[2].socket_fd

\* C39: whenever clients_mutex and metrics_mutex are both free,
\* metrics.active_clients is the number of entries of the registry, and it
\* is never negative.
C39_ActiveClientsIsRegistrySize ==
    /\ metrics.active_clients >= 0
    /\ (clients_mutex = Nobody /\ metrics_mutex = Nobody) =>
          metrics.active_clients = Cardinality(DOMAIN clients)

\* C40: clients_mutex and metrics_mutex are taken in one order: no two
\* threads are such that one holds clients_mutex and waits for
\* metrics_mutex while the other holds metrics_mutex and waits for
\* clients_mutex.
C40_OneLockOrder ==
    \A a, b \in Handles : ~(clients_then_metrics(a) /\ metrics_then_clients(b))

====
